---- MODULE Spec2Model ----
(***************************************************************************)
(* bitmap-js: the 8bpp Bitmap of src/src/bitmap.ts (version 1.0.13), its   *)
(* decoder Bitmap.from, its palette and pixel accessors, and the Surface   *)
(* that draws on it through pixel shaders.                                 *)
(*                                                                         *)
(* A Uint8Array is a sequence of bytes; offset k of the array is element   *)
(* k + 1 of the sequence.  All coordinates and indices are integers.       *)
(***************************************************************************)
EXTENDS Integers, Sequences, FiniteSets, TLC

(***************************************************************************)
(* Bounds of the model.                                                    *)
(***************************************************************************)
\* Largest width and height of a bitmap made by the constructor.
MaxDim == 2
\* Largest number of state-changing calls made on one bitmap.
MaxOps == 1
\* Largest magnitude of a scale factor given to a blit.
MaxScale == 2
\* Longest shader list given to pixel().
MaxShaders == 2

(***************************************************************************)
(* enum BitmapOffset                                                       *)
(***************************************************************************)
HEADER_SIZE == 1078
HEADER_BM == 16973
HEADER_MAGIC == 0
HEADER_DATA == 10
HEADER_FILESIZE == 2
HEADER_WIDTH == 18
HEADER_HEIGHT == 22
HEADER_COLOR_FORMAT == 28
HEADER_COMPRESSION == 30
PALETTE_SIZE == 256
PALETTE_START == 54

(***************************************************************************)
(* Uint8Array and DataView                                                 *)
(***************************************************************************)
\* new Uint8Array(n): n zero bytes.
Uint8Array(n) == [i \in 1..n |-> 0]

\* array[offset]
At(array, offset) == array[offset + 1]

\* array[offset] = value: the value is stored modulo 256, and a store outside
\* the array is ignored.
Put(array, offset, value) ==
  IF offset >= 0 /\ offset < Len(array)
  THEN [array EXCEPT ![offset + 1] = value % 256]
  ELSE array

\* Four stores, at offset .. offset + 3 in that order.
Put4(array, offset, v0, v1, v2, v3) ==
  IF offset >= 0 /\ offset + 3 < Len(array)
  THEN [array EXCEPT ![offset + 1] = v0 % 256, ![offset + 2] = v1 % 256,
                     ![offset + 3] = v2 % 256, ![offset + 4] = v3 % 256]
  ELSE Put(Put(Put(Put(array, offset, v0), offset + 1, v1), offset + 2, v2), offset + 3, v3)

\* array.slice(start, end)
slice(array, start, end) == SubSeq(array, start + 1, end)

\* target.set(source, offset) when it fits; the caller decides what happens
\* when source.length + offset > target.length (a RangeError).
set(target, source, offset) ==
  [i \in 1..Len(target) |->
     IF i > offset /\ i <= offset + Len(source) THEN source[i - offset] ELSE target[i]]

\* target.fill(value, start)
fill(target, value, start) ==
  [i \in 1..Len(target) |-> IF i > start THEN value % 256 ELSE target[i]]

\* DataView.getUint16(offset, littleEndian)
getUint16(array, offset, littleEndian) ==
  IF littleEndian
  THEN At(array, offset) + 256 * At(array, offset + 1)
  ELSE 256 * At(array, offset) + At(array, offset + 1)

\* DataView.getUint32(offset, true)
getUint32(array, offset) ==
  At(array, offset) + 256 * At(array, offset + 1)
    + 65536 * At(array, offset + 2) + 16777216 * At(array, offset + 3)

\* DataView.setUint32(offset, value, true): the four low bytes of value.
setUint32(array, offset, value) ==
  Put(Put(Put(Put(array, offset, value % 256),
              offset + 1, (value \div 256) % 256),
          offset + 2, (value \div 65536) % 256),
      offset + 3, (value \div 16777216) % 256)

(***************************************************************************)
(* class Color                                                             *)
(***************************************************************************)
Color(r, g, b, a) == [r |-> r, g |-> g, b |-> b, a |-> a]

(***************************************************************************)
(* class Bitmap.  A bitmap value is [width, height, data]; _size is        *)
(* width * height and _paletteSize is always PALETTE_SIZE.                 *)
(***************************************************************************)
\* withinImage with the far edges counted in.
withinImageClosed(bmp, x, y) == x >= 0 /\ x <= bmp.width /\ y >= 0 /\ y <= bmp.height

withinImage(bmp, x, y) == x >= 0 /\ x < bmp.width /\ y >= 0 /\ y < bmp.height

\* withinPalette without its lower bound.
withinPaletteBelow(index) == index < PALETTE_SIZE

withinPalette(index) == index >= 0 /\ index < PALETTE_SIZE

\* The offset of pixel (x, y) were rows stored top-down.
PixelOffsetTopDown(bmp, x, y) == HEADER_SIZE + (bmp.width * y) + x

\* The offset of pixel (x, y): rows are stored bottom-up.
PixelOffset(bmp, x, y) == HEADER_SIZE + (bmp.width * ((bmp.height - 1) - y)) + x

\* setPixel were it to store any colour index, as a byte.
setPixelAnyColor(bmp, x, y, primaryColor) ==
  IF ~withinImage(bmp, x, y)
  THEN [data |-> bmp.data, ret |-> FALSE]
  ELSE [data |-> Put(bmp.data, PixelOffset(bmp, x, y), primaryColor % 256), ret |-> TRUE]

\* setPixel(x, y, primaryColor): the new bytes and the value returned.
setPixel(bmp, x, y, primaryColor) ==
  IF ~withinImage(bmp, x, y) \/ ~withinPalette(primaryColor)
  THEN [data |-> bmp.data, ret |-> FALSE]
  ELSE [data |-> Put(bmp.data, PixelOffset(bmp, x, y), primaryColor), ret |-> TRUE]

getPixel(bmp, x, y) ==
  IF ~withinImage(bmp, x, y) THEN -1 ELSE At(bmp.data, PixelOffset(bmp, x, y))

\* clearImage were the fill to start at the first byte.
clearImageWhole(bmp, primaryColor) ==
  [data |-> fill(bmp.data, primaryColor, 0), ret |-> TRUE]

clearImage(bmp, primaryColor) ==
  [data |-> fill(bmp.data, primaryColor, HEADER_SIZE), ret |-> TRUE]

\* The offset of palette entry index.
PaletteOffset(index) == PALETTE_START + (index * 4)

\* setColor were the channels stored in the order r, g, b, a.
setColorRGBA(bmp, index, color) ==
  IF ~withinPalette(index)
  THEN [data |-> bmp.data, ret |-> FALSE]
  ELSE LET offset == PaletteOffset(index)
       IN  [data |-> Put4(bmp.data, offset, color.r, color.g, color.b, color.a),
            ret |-> TRUE]

setColor(bmp, index, color) ==
  IF ~withinPalette(index)
  THEN [data |-> bmp.data, ret |-> FALSE]
  ELSE LET offset == PaletteOffset(index)
       IN  [data |-> Put4(bmp.data, offset, color.b, color.g, color.r, color.a),
            ret |-> TRUE]

getColor(bmp, index) ==
  IF ~withinPalette(index)
  THEN Color(0, 0, 0, 0)
  ELSE LET offset == PaletteOffset(index)
       IN  Color(At(bmp.data, offset + 2), At(bmp.data, offset + 1),
                 At(bmp.data, offset), At(bmp.data, offset + 3))

\* A pass of the loop of setPalette were the result of setColor not looked at.
paletteStepUnchecked(st, w, h, colors, index) ==
  IF st.done \/ ~(index < Len(colors))
  THEN [st EXCEPT !.done = TRUE]
  ELSE LET colorResult == setColor([width |-> w, height |-> h, data |-> st.data],
                                   index, colors[index + 1])
       IN  [data |-> colorResult.data, ret |-> st.ret, done |-> index >= PALETTE_SIZE]

\* One pass of the loop of setPalette, at position index.  st holds the bytes,
\* the flag result and whether the loop has ended (its condition failed or it
\* reached the break).
paletteStep(st, w, h, colors, index) ==
  IF st.done \/ ~(index < Len(colors))
  THEN [st EXCEPT !.done = TRUE]
  ELSE LET colorResult == setColor([width |-> w, height |-> h, data |-> st.data],
                                   index, colors[index + 1])
       IN  [data |-> colorResult.data,
            ret |-> IF ~colorResult.ret THEN FALSE ELSE st.ret,
            done |-> index >= PALETTE_SIZE]

\* The passes of the loop of setPalette at positions lo .. hi - 1, in order;
\* none follows the pass that ended the loop.
RECURSIVE paletteLoop(_, _, _, _, _, _)
paletteLoop(st, w, h, colors, lo, hi) ==
  IF hi <= lo THEN st
  ELSE IF hi = lo + 1 THEN paletteStep(st, w, h, colors, lo)
  ELSE LET mid == (lo + hi) \div 2
           left == paletteLoop(st, w, h, colors, lo, mid)
       IN  IF left.done THEN left ELSE paletteLoop(left, w, h, colors, mid, hi)

setPalette(bmp, colors) ==
  LET st == paletteLoop([data |-> bmp.data, ret |-> TRUE, done |-> FALSE],
                        bmp.width, bmp.height, colors, 0, Len(colors))
  IN  [data |-> st.data, ret |-> st.ret]

getPixelColor(bmp, x, y) == getColor(bmp, getPixel(bmp, x, y))

\* A store in a Uint8ClampedArray: the value is clamped to 0..255, and a store
\* outside the array is ignored.
PutClamped(array, offset, value) ==
  IF offset >= 0 /\ offset < Len(array)
  THEN [array EXCEPT ![offset + 1] = IF value < 0 THEN 0 ELSE IF value > 255 THEN 255 ELSE value]
  ELSE array

\* A pass of the loops of toImageData were the alpha byte that of the palette.
imageStepStoredAlpha(bmp, mask, result, k) ==
  LET x == k % bmp.width
      y == k \div bmp.width
      pixelValue == getPixel(bmp, x, y)
      color == getColor(bmp, pixelValue)
      index == ((bmp.width * y) + x) * 4
  IN  IF pixelValue = mask THEN result
      ELSE PutClamped(PutClamped(PutClamped(PutClamped(result,
             index, color.r), index + 1, color.g), index + 2, color.b), index + 3, color.a)

\* Pass k of the two loops of toImageData, k counting the passes in the order
\* the loops make them (y the outer loop, x the inner).
imageStep(bmp, mask, result, k) ==
  LET x == k % bmp.width
      y == k \div bmp.width
      pixelValue == getPixel(bmp, x, y)
      color == getColor(bmp, pixelValue)
      index == ((bmp.width * y) + x) * 4
  IN  IF pixelValue = mask THEN result
      ELSE PutClamped(PutClamped(PutClamped(PutClamped(result,
             index, color.r), index + 1, color.g), index + 2, color.b), index + 3, 255)

\* The passes k .. n - 1 of the loops of toImageData, in order.
RECURSIVE imageLoop(_, _, _, _, _)
imageLoop(bmp, mask, result, k, n) ==
  IF k >= n THEN result
  ELSE imageLoop(bmp, mask, imageStep(bmp, mask, result, k), k + 1, n)

\* toImageData(mask): the bytes of the bitmap after the call and the array
\* returned.
toImageData(bmp, mask) ==
  LET size == bmp.width * bmp.height
  IN  [data |-> bmp.data, ret |-> imageLoop(bmp, mask, Uint8Array(size * 4), 0, size)]

\* Pass k of the two loops of toImageData of the compiled library 1.0.2b,
\* whose getPixel and getColor are those above: the result is a Uint8Array
\* and the index of a pixel's bytes is (width * y) + x.
imageStepLib(bmp, mask, result, k) ==
  LET x == k % bmp.width
      y == k \div bmp.width
      pixelValue == getPixel(bmp, x, y)
      color == getColor(bmp, pixelValue)
      index == (bmp.width * y) + x
  IN  IF pixelValue = mask THEN result
      ELSE Put(Put(Put(Put(result, index, color.r), index + 1, color.g),
                   index + 2, color.b), index + 3, 255)

\* The passes k .. n - 1 of the loops of toImageData of the library, in order.
RECURSIVE imageLoopLib(_, _, _, _, _)
imageLoopLib(bmp, mask, result, k, n) ==
  IF k >= n THEN result
  ELSE imageLoopLib(bmp, mask, imageStepLib(bmp, mask, result, k), k + 1, n)

\* toImageData(mask) of the library: the array returned.
toImageDataLib(bmp, mask) ==
  imageLoopLib(bmp, mask, Uint8Array(bmp.width * bmp.height * 4), 0, bmp.width * bmp.height)

\* The 54 bytes of defaultHeader.
defaultHeader ==
  << 66, 77,  0, 0, 0, 0,  0, 0, 0, 0,  54, 4, 0, 0,
     40, 0, 0, 0,  0, 0, 0, 0,  0, 0, 0, 0,  1, 0,  8, 0,
     0, 0, 0, 0,  0, 0, 0, 0,  18, 11, 0, 0,  18, 11, 0, 0,
     0, 1, 0, 0,  0, 1, 0, 0 >>

\* new Bitmap(width, height, colors): err names the error thrown, "none" when
\* the bitmap is made.
Bitmap(w, h, colors) ==
  IF w <= 0 \/ h <= 0
  THEN [err |-> "InvalidDimensions", width |-> 0, height |-> 0, data |-> << >>]
  ELSE LET size == w * h
           blank == Uint8Array(HEADER_SIZE + size)
           headed == set(blank, defaultHeader, 0)
           sized == setUint32(headed, HEADER_FILESIZE, Len(headed))
           wide == setUint32(sized, HEADER_WIDTH, w)
           high == setUint32(wide, HEADER_HEIGHT, h)
       IN  [err |-> "none", width |-> w, height |-> h,
            data |-> setPalette([width |-> w, height |-> h, data |-> high], colors).data]

\* The result of a call that throws: no bitmap.
Thrown(kind) == [err |-> kind, width |-> 0, height |-> 0, data |-> << >>]

\* A Uint8Array over byteLength bytes of buffer, from byteOffset on.
View(buffer, byteOffset, byteLength) ==
  [buffer |-> buffer, byteOffset |-> byteOffset, byteLength |-> byteLength]

\* new Uint8Array(n) and its kin: the array is the whole of its buffer.
Whole(bytes) == View(bytes, 0, Len(bytes))

\* The elements of the array.
Bytes(file) == SubSeq(file.buffer, file.byteOffset + 1, file.byteOffset + file.byteLength)

\* The fragment were it taken from the pixels on.
FragmentOfPixels(file) == slice(Bytes(file), HEADER_SIZE, file.byteLength)

\* file.slice(PALETTE_START, file.byteLength)
Fragment(file) == slice(Bytes(file), PALETTE_START, file.byteLength)

\* Bitmap.from(file).  Each Error thrown is named by its kind; TypedArray.set
\* throws a RangeError when the fragment does not fit in result.data.
\* fileView is new DataView(file.buffer): it reads the buffer from its start,
\* wherever in the buffer the array begins.
from(file) ==
  IF file.byteLength < HEADER_SIZE
  THEN Thrown("TruncatedInput")
  ELSE LET fileView == file.buffer
           signature == getUint16(fileView, HEADER_MAGIC, FALSE)
           dataOffset == getUint32(fileView, HEADER_DATA)
           w == getUint32(fileView, HEADER_WIDTH)
           h == getUint32(fileView, HEADER_HEIGHT)
           bitsPerPixel == getUint16(fileView, HEADER_COLOR_FORMAT, TRUE)
           compression == getUint16(fileView, HEADER_COMPRESSION, TRUE)
       IN  IF signature # HEADER_BM THEN Thrown("BadSignature")
           ELSE IF dataOffset # HEADER_SIZE THEN Thrown("BadDataOffset")
           ELSE IF w <= 0 \/ h <= 0 THEN Thrown("InvalidDimensions")
           ELSE IF bitsPerPixel # 8 THEN Thrown("UnsupportedDepth")
           ELSE IF compression # 0 THEN Thrown("UnsupportedCompression")
           ELSE LET result == Bitmap(w, h, << >>)
                    fragment == Fragment(file)
                IN  IF Len(fragment) + PALETTE_START > Len(result.data)
                    THEN Thrown("RangeError")
                    ELSE [result EXCEPT !.data = set(result.data, fragment, PALETTE_START)]

(***************************************************************************)
(* class Pixel, interface PixelShader, class MaskShader                    *)
(***************************************************************************)
Pixel(x, y, color) == [x |-> x, y |-> y, color |-> color]

MaskShader(value) == [kind |-> "MaskShader", value |-> value]

\* Two shaders a caller writes against interface PixelShader: one returns the
\* candidate moved one column right with value added to its colour, the other
\* returns the previous pixel with value added to its colour.
ShiftShader(value) == [kind |-> "ShiftShader", value |-> value]
UndoShader(value) == [kind |-> "UndoShader", value |-> value]

\* The shaders were MaskShader to return the candidate as it is.
pixelShaderPass(shader, previous, next) ==
  CASE shader.kind = "MaskShader" -> next
    [] shader.kind = "ShiftShader" ->
         Pixel(next.x + 1, next.y, next.color + shader.value)
    [] shader.kind = "UndoShader" ->
         Pixel(previous.x, previous.y, previous.color + shader.value)

\* shader.pixelShader(previous, next); MaskShader is the shader of the library.
pixelShader(shader, previous, next) ==
  CASE shader.kind = "MaskShader" ->
         IF next.color = shader.value THEN [next EXCEPT !.color = -1] ELSE next
    [] shader.kind = "ShiftShader" ->
         Pixel(next.x + 1, next.y, next.color + shader.value)
    [] shader.kind = "UndoShader" ->
         Pixel(previous.x, previous.y, previous.color + shader.value)

(***************************************************************************)
(* class Surface.  Every operation takes the bytes of the drawable and     *)
(* returns them as the operation leaves them.                              *)
(***************************************************************************)
\* A pass of the shader loop were previous never replaced.
shaderStepOriginal(st, shaders, index) ==
  LET result == pixelShader(shaders[index + 1], st.previous, st.next)
  IN  [previous |-> st.previous, next |-> result,
       calls |-> Append(st.calls, [previous |-> st.previous, next |-> st.next,
                                   result |-> result])]

\* The pass of the shader loop of pixel() at position index.  st holds
\* previous, next, and the calls of pixelShader made so far, each with its two
\* arguments and its result.
shaderStep(st, shaders, index) ==
  LET result == pixelShader(shaders[index + 1], st.previous, st.next)
  IN  [previous |-> st.next, next |-> result,
       calls |-> Append(st.calls, [previous |-> st.previous, next |-> st.next,
                                   result |-> result])]

\* The shader loop of pixel() from position index on.
RECURSIVE shaderLoop(_, _, _)
shaderLoop(st, shaders, index) ==
  IF ~(index < Len(shaders))
  THEN st
  ELSE shaderLoop(shaderStep(st, shaders, index), shaders, index + 1)

\* Surface.pixel were the commit made at the position and colour asked for.
pixelRunUnshaded(bmp, x, y, primaryColor, shaders) ==
  LET st == shaderLoop([previous |-> Pixel(x, y, getPixel(bmp, x, y)),
                        next |-> Pixel(x, y, primaryColor), calls |-> << >>], shaders, 0)
      done == setPixel(bmp, x, y, primaryColor)
  IN  [bmp |-> [bmp EXCEPT !.data = done.data], calls |-> st.calls,
       commits |-> << [x |-> x, y |-> y, color |-> primaryColor, ret |-> done.ret] >>]

\* Surface.pixel(x, y, primaryColor, shaders): the drawable after the call,
\* the calls of pixelShader and the calls of setPixel it made.
pixelRun(bmp, x, y, primaryColor, shaders) ==
  LET st == shaderLoop([previous |-> Pixel(x, y, getPixel(bmp, x, y)),
                        next |-> Pixel(x, y, primaryColor), calls |-> << >>], shaders, 0)
      done == setPixel(bmp, st.next.x, st.next.y, st.next.color)
  IN  [bmp |-> [bmp EXCEPT !.data = done.data], calls |-> st.calls,
       commits |-> << [x |-> st.next.x, y |-> st.next.y, color |-> st.next.color,
                       ret |-> done.ret] >>]

\* Surface.pixel(x, y, primaryColor, shaders): the drawable after the call.
pixel(bmp, x, y, primaryColor, shaders) == pixelRun(bmp, x, y, primaryColor, shaders).bmp

\* e, once v has its value.  TLC evaluates the arguments of an operator on
\* demand, so a loop written as a recursion would pile up one pending pass on
\* the next; the loops below split their passes in two halves and finish the
\* first half before they start the second.
After(v, e) == IF v = v THEN e ELSE e

\* pixel() called for each <<x, y, color>> of plots at positions lo .. hi - 1,
\* in order.
RECURSIVE plotRange(_, _, _, _, _)
plotRange(bmp, plots, lo, hi, shaders) ==
  IF hi <= lo THEN bmp
  ELSE IF hi = lo + 1
  THEN pixel(bmp, plots[lo + 1][1], plots[lo + 1][2], plots[lo + 1][3], shaders)
  ELSE LET mid == (lo + hi) \div 2
           left == plotRange(bmp, plots, lo, mid, shaders)
       IN  After(left, plotRange(left, plots, mid, hi, shaders))

\* pixel() called for each <<x, y, color>> of plots, in order.
plotAll(bmp, plots, shaders) == plotRange(bmp, plots, 0, Len(plots), shaders)

\* The plots of clear(): every position, row by row.
clearPlots(bmp, primaryColor) ==
  [k \in 1..(bmp.width * bmp.height) |->
     << (k - 1) % bmp.width, (k - 1) \div bmp.width, primaryColor >>]

\* The plots of hline(x, y, size, primaryColor): none when size <= 0.
hlinePlots(x, y, size, primaryColor) ==
  [k \in 1..size |-> << x + (k - 1), y, primaryColor >>]

\* The plots of vline(x, y, size, primaryColor): none when size <= 0.
vlinePlots(x, y, size, primaryColor) ==
  [k \in 1..size |-> << x, y + (k - 1), primaryColor >>]

\* Math.abs
abs(n) == IF n < 0 THEN -n ELSE n

\* A pass of the loop of line() were the step always that of the longer axis.
lineStepAxis(st, d, primaryColor) ==
  [numerator |-> st.numerator + d.shortest, xi |-> st.xi + d.dx2, yi |-> st.yi + d.dy2,
   plots |-> Append(st.plots, << st.xi, st.yi, primaryColor >>)]

\* One pass of the loop of line(): st holds numerator, xi, yi and the plots
\* made so far; d holds longest, shortest, dx1, dy1, dx2, dy2.
lineStep(st, d, primaryColor) ==
  LET n == st.numerator + d.shortest
      plots == Append(st.plots, << st.xi, st.yi, primaryColor >>)
  IN  IF ~(n < d.longest)
      THEN [numerator |-> n - d.longest, xi |-> st.xi + d.dx1, yi |-> st.yi + d.dy1,
            plots |-> plots]
      ELSE [numerator |-> n, xi |-> st.xi + d.dx2, yi |-> st.yi + d.dy2,
            plots |-> plots]

\* The passes lo .. hi - 1 of the loop of line(), in order.
RECURSIVE lineLoop(_, _, _, _, _)
lineLoop(st, d, primaryColor, lo, hi) ==
  IF hi <= lo THEN st
  ELSE IF hi = lo + 1 THEN lineStep(st, d, primaryColor)
  ELSE LET mid == (lo + hi) \div 2
           left == lineLoop(st, d, primaryColor, lo, mid)
       IN  After(left, lineLoop(left, d, primaryColor, mid, hi))

\* The plots of line(x1, y1, x2, y2, primaryColor): passes 0 .. longest.
linePlots(x1, y1, x2, y2, primaryColor) ==
  LET w == x2 - x1
      h == y2 - y1
      steep == ~(abs(w) > abs(h))
      longest == IF steep THEN abs(h) ELSE abs(w)
      shortest == IF steep THEN abs(w) ELSE abs(h)
      dx1 == IF w < 0 THEN -1 ELSE IF w > 0 THEN 1 ELSE 0
      dy1 == IF h < 0 THEN -1 ELSE IF h > 0 THEN 1 ELSE 0
      d == [longest |-> longest, shortest |-> shortest, dx1 |-> dx1, dy1 |-> dy1,
            dx2 |-> IF steep THEN 0 ELSE dx1, dy2 |-> IF steep THEN dy1 ELSE 0]
  IN  lineLoop([numerator |-> longest \div 2, xi |-> x1, yi |-> y1, plots |-> << >>],
               d, primaryColor, 0, longest + 1).plots

\* The plots of rectb were the left and right edges to start at row y and
\* span height + 1 rows.
rectbPlotsCorners(x, y, w, h, primaryColor) ==
  hlinePlots(x, y, w, primaryColor) \o
  hlinePlots(x, y + h, w, primaryColor) \o
  vlinePlots(x, y, h + 1, primaryColor) \o
  vlinePlots(x + w - 1, y, h + 1, primaryColor)

\* The plots of rectb(x, y, width, height, primaryColor).
rectbPlots(x, y, w, h, primaryColor) ==
  hlinePlots(x, y, w, primaryColor) \o
  hlinePlots(x, y + h, w, primaryColor) \o
  vlinePlots(x, y + 1, h - 1, primaryColor) \o
  vlinePlots(x + w - 1, y + 1, h - 1, primaryColor)

\* The plots of rectf(x, y, width, height, primaryColor): hline for each of
\* the rows 0 .. height - 1, in order; none when width <= 0 or height <= 0.
rectfPlots(x, y, w, h, primaryColor) ==
  IF w <= 0 \/ h <= 0
  THEN << >>
  ELSE [k \in 1..(w * h) |-> hlinePlots(x, y + ((k - 1) \div w), w, primaryColor)[1 + ((k - 1) % w)]]

\* The plots of rect were the fill shrunk by 1 instead of 2.
rectPlotsShrunkByOne(x, y, w, h, primaryColor, secondaryColor) ==
  rectbPlots(x, y, w, h, primaryColor) \o
  rectfPlots(x + 1, y + 1, w - 1, h - 1, secondaryColor)

\* The plots of rect(x, y, width, height, primaryColor, secondaryColor).
rectPlots(x, y, w, h, primaryColor, secondaryColor) ==
  rectbPlots(x, y, w, h, primaryColor) \o
  rectfPlots(x + 1, y + 1, w - 2, h - 2, secondaryColor)

clear(bmp, primaryColor, shaders) ==
  plotAll(bmp, clearPlots(bmp, primaryColor), shaders)

hline(bmp, x, y, size, primaryColor, shaders) ==
  plotAll(bmp, hlinePlots(x, y, size, primaryColor), shaders)

vline(bmp, x, y, size, primaryColor, shaders) ==
  plotAll(bmp, vlinePlots(x, y, size, primaryColor), shaders)

line(bmp, x1, y1, x2, y2, primaryColor, shaders) ==
  plotAll(bmp, linePlots(x1, y1, x2, y2, primaryColor), shaders)

rectb(bmp, x, y, w, h, primaryColor, shaders) ==
  plotAll(bmp, rectbPlots(x, y, w, h, primaryColor), shaders)

rectf(bmp, x, y, w, h, primaryColor, shaders) ==
  plotAll(bmp, rectfPlots(x, y, w, h, primaryColor), shaders)

rect(bmp, x, y, w, h, primaryColor, secondaryColor, shaders) ==
  plotAll(bmp, rectPlots(x, y, w, h, primaryColor, secondaryColor), shaders)

\* rectb, rectf and rect of the Surface of the compiled library 1.0.2b, whose
\* pixel, hline and vline are those above: hline and vline are called
\* without the shaders, and rect fills w - 1 columns and h - 1 rows.
rectbLib(bmp, x, y, w, h, primaryColor, shaders) ==
  plotAll(bmp, rectbPlots(x, y, w, h, primaryColor), << >>)

rectfLib(bmp, x, y, w, h, primaryColor, shaders) ==
  plotAll(bmp, rectfPlots(x, y, w, h, primaryColor), << >>)

rectLib(bmp, x, y, w, h, primaryColor, secondaryColor, shaders) ==
  rectfLib(rectbLib(bmp, x, y, w, h, primaryColor, shaders),
           x + 1, y + 1, w - 1, h - 1, secondaryColor, shaders)

\* The drawable argument of a blit: the surface's own drawable, or another
\* bitmap.
Own == [own |-> TRUE]
Other(bitmap) ==
  [own |-> FALSE, width |-> bitmap.width, height |-> bitmap.height, data |-> bitmap.data]

\* The drawable a blit reads; the surface's own is read as it is at the time
\* of the read.
Source(bmp, drawable) == IF drawable.own THEN bmp ELSE drawable

\* Pass k of the four nested loops of blitsub(), k counting the passes in the
\* order the loops make them (pyi, dy, pxi, dx from the outermost in).  a holds
\* x, y, cx, cy, width, height, fx, fy.
blitStep(bmp, drawable, k, a, shaders) ==
  LET pw == abs(a.fx)
      ph == abs(a.fy)
      dx == k % a.width
      pxi == (k \div a.width) % pw
      dy == (k \div (a.width * pw)) % a.height
      pyi == k \div (a.width * pw * a.height)
      color == getPixel(Source(bmp, drawable), dx + a.cx, dy + a.cy)
      px == IF a.fx < 0 THEN (a.width - 1) - (a.x + dx) ELSE a.x + dx
      py == IF a.fy < 0 THEN (a.height - 1) - (a.y + dy) ELSE a.y + dy
  IN  pixel(bmp, px + ((pw - 1) * dx) + pxi, py + ((ph - 1) * dy) + pyi, color, shaders)

\* The passes lo .. hi - 1 of the loops of blitsub(), in order.
RECURSIVE blitLoop(_, _, _, _, _, _)
blitLoop(bmp, drawable, lo, hi, a, shaders) ==
  IF hi <= lo THEN bmp
  ELSE IF hi = lo + 1 THEN blitStep(bmp, drawable, lo, a, shaders)
  ELSE LET mid == (lo + hi) \div 2
           left == blitLoop(bmp, drawable, lo, mid, a, shaders)
       IN  After(left, blitLoop(left, drawable, mid, hi, a, shaders))

\* blitsub(drawable, x, y, cx, cy, width, height, scaleX, scaleY, 0, shaders),
\* the scales being integers: the loops make |scaleY| * height * |scaleX| * width
\* passes, none when width <= 0 or height <= 0.
blitsub(bmp, drawable, x, y, cx, cy, w, h, scaleX, scaleY, shaders) ==
  IF scaleX = 0 \/ scaleY = 0
  THEN bmp
  ELSE blitLoop(bmp, drawable, 0,
                IF w > 0 /\ h > 0 THEN abs(scaleY) * h * abs(scaleX) * w ELSE 0,
                [x |-> x, y |-> y, cx |-> cx, cy |-> cy, width |-> w, height |-> h,
                 fx |-> scaleX, fy |-> scaleY],
                shaders)

\* blit(drawable, x, y, scaleX, scaleY, 0, shaders)
blit(bmp, drawable, x, y, scaleX, scaleY, shaders) ==
  blitsub(bmp, drawable, x, y, 0, 0, Source(bmp, drawable).width,
          Source(bmp, drawable).height, scaleX, scaleY, shaders)

\* charset.indexOf(char), from position index on; a string is a sequence of
\* characters.
RECURSIVE indexOfFrom(_, _, _)
indexOfFrom(charset, char, index) ==
  IF ~(index < Len(charset)) THEN -1
  ELSE IF charset[index + 1] = char THEN index
  ELSE indexOfFrom(charset, char, index + 1)

indexOf(charset, char) == indexOfFrom(charset, char, 0)

\* A pass of the loop of text() were a character absent from the charset to
\* leave the column as it is.
textStepSkip(st, drawable, index, a, shaders) ==
  LET char == a.text[index + 1]
      charIndex == indexOf(a.charset, char)
      charRow == (charIndex \div a.charColumns) % a.charColumns
      charColumn == charIndex % a.charColumns
      charX == a.x + (st.column * a.width) + (a.letterSpacing * st.column)
      charY == a.y + (st.line * a.height) + (a.lineHeight * st.line)
      charCutX == a.cx + (charColumn * a.width)
      charCutY == a.cy + (charRow * a.height)
  IN  IF char = "\n"
      THEN [st EXCEPT !.line = st.line + 1, !.column = 0]
      ELSE IF charIndex < 0
      THEN st
      ELSE [bmp |-> blitsub(st.bmp, drawable, charX, charY, charCutX, charCutY,
                            a.width, a.height, a.scaleX, a.scaleY, shaders),
            line |-> st.line, column |-> st.column + 1,
            blits |-> Append(st.blits, [char |-> char, x |-> charX, y |-> charY,
                                        cx |-> charCutX, cy |-> charCutY])]

\* One pass of the loop of text(), at character index.  st holds the drawable
\* of the surface (bmp), line, column, and the calls of blitsub made so far,
\* each with its character, destination and cut; a holds the arguments of text(): x, y,
\* cx, cy, width, height, charset, charColumns (at least 1), text,
\* letterSpacing, lineHeight, scaleX, scaleY.
textStep(st, drawable, index, a, shaders) ==
  LET char == a.text[index + 1]
      charIndex == indexOf(a.charset, char)
      charRow == (charIndex \div a.charColumns) % a.charColumns
      charColumn == charIndex % a.charColumns
      charX == a.x + (st.column * a.width) + (a.letterSpacing * st.column)
      charY == a.y + (st.line * a.height) + (a.lineHeight * st.line)
      charCutX == a.cx + (charColumn * a.width)
      charCutY == a.cy + (charRow * a.height)
  IN  IF char = "\n"
      THEN [st EXCEPT !.line = st.line + 1, !.column = 0]
      ELSE IF charIndex < 0
      THEN [st EXCEPT !.column = st.column + 1]
      ELSE [bmp |-> blitsub(st.bmp, drawable, charX, charY, charCutX, charCutY,
                            a.width, a.height, a.scaleX, a.scaleY, shaders),
            line |-> st.line, column |-> st.column + 1,
            blits |-> Append(st.blits, [char |-> char, x |-> charX, y |-> charY,
                                        cx |-> charCutX, cy |-> charCutY])]

\* The passes lo .. hi - 1 of the loop of text(), in order.
RECURSIVE textLoop(_, _, _, _, _, _)
textLoop(st, drawable, lo, hi, a, shaders) ==
  IF hi <= lo THEN st
  ELSE IF hi = lo + 1 THEN textStep(st, drawable, lo, a, shaders)
  ELSE LET mid == (lo + hi) \div 2
           left == textLoop(st, drawable, lo, mid, a, shaders)
       IN  After(left, textLoop(left, drawable, mid, hi, a, shaders))

\* text(drawable, x, y, cx, cy, width, height, charset, charColumns, text,
\*      letterSpacing, lineHeight, scaleX, scaleY, 0, shaders): the drawable,
\* line and column it ends with, and the calls of blitsub it made.
textRun(bmp, drawable, a, shaders) ==
  textLoop([bmp |-> bmp, line |-> 0, column |-> 0, blits |-> << >>], drawable, 0,
           Len(a.text), a, shaders)

\* The drawable after text().
text(bmp, drawable, a, shaders) == textRun(bmp, drawable, a, shaders).bmp

(***************************************************************************)
(* Inputs of the calls.                                                    *)
(***************************************************************************)
\* defaultPalette, the four colours the library exports.
defaultPalette ==
  << Color(33, 30, 32, 255), Color(85, 85, 104, 255),
     Color(160, 160, 139, 255), Color(233, 239, 236, 255) >>

\* A list of n colours, each different from its neighbours.
ColorList(n) ==
  [i \in 1..n |-> Color((3 * i) % 256, (5 * i + 1) % 256, (7 * i + 2) % 256, 255 - (i % 256))]

\* Colour lists given to the constructor: none, and the default palette.
NewColorLists == { << >>, defaultPalette }

\* Colour lists given to setPalette: up to, exactly, and more than 256 colours.
PaletteLists == { ColorList(n) : n \in {0, 2, PALETTE_SIZE, PALETTE_SIZE + 1} }

\* Colours given to setColor; the last has channels outside 0..255.
ColorInputs == { Color(1, 2, 3, 4), Color(255, 0, 128, 254), Color(300, -1, 256, 511) }

\* Palette and colour indices: the ends of 0..255 and their neighbours.
IndexInputs == { -1, 0, PALETTE_SIZE - 1, PALETTE_SIZE }

\* Coordinates along an axis of the given extent: its ends and their neighbours.
Axis(extent) == { -1, 0, extent - 1, extent }

\* Colour indices given to clearImage.
ClearInputs == { -1, 0, 9, PALETTE_SIZE + 9 }

\* A 2 x 2 bitmap to blit from, its four pixels different.
Sprite ==
  LET blank == Bitmap(2, 2, << >>)
  IN  [blank EXCEPT !.data = Put(Put(Put(Put(blank.data, HEADER_SIZE, 9), HEADER_SIZE + 1, 11),
                                     HEADER_SIZE + 2, 12), HEADER_SIZE + 3, 13)]

\* A file of len bytes with the header of a w x h bitmap, whose bytes from the
\* palette on are all nonzero and differ from their neighbours.
TestFile(w, h, len) ==
  LET header == setUint32(setUint32(setUint32(defaultHeader, HEADER_FILESIZE,
                    HEADER_SIZE + w * h), HEADER_WIDTH, w), HEADER_HEIGHT, h)
      rest == IF len > Len(header) THEN len - Len(header) ELSE 0
      whole == header \o [i \in 1..rest |-> 1 + ((Len(header) + i) % 251)]
  IN  SubSeq(whole, 1, len)

\* The file with the byte at offset m[1] replaced by m[2].
Patch(file, m) == Put(file, m[1], m[2])

\* Header bytes Bitmap.from never reads, set to values a canonical header
\* does not hold there.
Junk ==
  { <<2, 9>>, <<6, 9>>, <<14, 9>>, <<26, 9>>, <<34, 9>>, <<38, 9>>, <<42, 9>>, <<46, 9>>,
    <<50, 9>> }

\* Changes of header bytes Bitmap.from reads, and of the bytes beside them.
Damage ==
  { <<0, 0>>, <<1, 0>>, <<10, 55>>, <<12, 1>>, <<18, 0>>, <<18, 3>>, <<19, 1>>,
    <<22, 0>>, <<22, 3>>, <<28, 4>>, <<29, 1>>, <<30, 1>>, <<31, 1>>,
    <<32, 1>>, <<33, 1>> }

\* No change: the first byte of the signature, written again.
Same == <<0, 66>>

\* Lengths of the files given to Bitmap.from, for a w x h header: too short
\* for the header, the header alone, one pixel short, exact, one byte long.
FileLengths(w, h) ==
  { 0, HEADER_SIZE - 1, HEADER_SIZE, HEADER_SIZE + w * h - 1,
    HEADER_SIZE + w * h, HEADER_SIZE + w * h + 1 }

(***************************************************************************)
(* State                                                                   *)
(***************************************************************************)
VARIABLES
  pc,      \* "start": no bitmap yet; "ready": a bitmap exists; "failed": the call that makes it threw
  file,    \* the array given to Bitmap.from, empty when the constructor is used
  err,     \* the kind of error thrown by the making call, "none" when none
  width,   \* Bitmap._width
  height,  \* Bitmap._height
  data,    \* Bitmap._data
  last,    \* the last call: its name, arguments and return value
  old,     \* Bitmap._data before the last call
  steps    \* number of calls made on the bitmap

vars == << pc, file, err, width, height, data, last, old, steps >>

\* The bitmap of the state, and the bitmap before the last call.
this == [width |-> width, height |-> height, data |-> data]
before == [width |-> width, height |-> height, data |-> old]

Init ==
  /\ pc = "start"
  /\ file = Whole(<< >>)
  /\ err = "none"
  /\ width = 0
  /\ height = 0
  /\ data = << >>
  /\ last = [op |-> "none"]
  /\ old = << >>
  /\ steps = 0

\* The making call returned or threw made.
Make(made, call) ==
  /\ pc' = IF made.err = "none" THEN "ready" ELSE "failed"
  /\ err' = made.err
  /\ width' = made.width
  /\ height' = made.height
  /\ data' = made.data
  /\ old' = made.data
  /\ last' = call
  /\ UNCHANGED steps

\* new Bitmap(w, h, colors)
New ==
  /\ pc = "start"
  /\ \E w \in 0..MaxDim, h \in 0..MaxDim, colors \in NewColorLists :
       /\ file' = Whole(<< >>)
       /\ \E made \in { Bitmap(w, h, colors) } :
            Make(made, [op |-> "new", w |-> w, h |-> h, colors |-> colors])

\* Bitmap.from(input)
Decode(input) ==
  /\ pc = "start"
  /\ file' = input
  /\ \E made \in { from(input) } : Make(made, [op |-> "from"])

\* The file with every byte of Junk written.
Junked(bytes) ==
  [i \in 1..Len(bytes) |-> IF << i - 1, 9 >> \in Junk THEN 9 ELSE bytes[i]]

\* Bitmap.from of a well-formed file whose unread header bytes hold junk.
FromGoodFile ==
  \E w \in 1..MaxDim, h \in 1..MaxDim :
    \E bytes \in { Junked(TestFile(w, h, HEADER_SIZE + w * h)) } :
      Decode(Whole(bytes))

\* The arrays that hold a file: the whole of a buffer, and, for a file as long
\* as its header says, the part of a buffer after a well-formed file of that
\* size.
Buffers(w, h, bytes) ==
  IF Len(bytes) = HEADER_SIZE + w * h
  THEN { Whole(bytes), View(TestFile(w, h, Len(bytes)) \o bytes, Len(bytes), Len(bytes)) }
  ELSE { Whole(bytes) }

\* Bitmap.from of a file of any length with up to two header bytes changed.
FromFile ==
  \E w \in 1..MaxDim, h \in 1..MaxDim :
    \E len \in FileLengths(w, h) :
      \E whole \in { TestFile(w, h, len) } :
        \E bytes \in { Patch(Patch(whole, m1), m2) :
                         m1 \in Junk \cup Damage, m2 \in Damage \cup {Same} } :
          \E input \in Buffers(w, h, bytes) :
            Decode(input)

\* A bitmap exists, no call on it is on record, and another may be made.
Idle == pc = "ready" /\ last.op = "none" /\ steps < MaxOps

\* A call on the bitmap that changes its bytes to bytes.  The calls that only
\* read (getPixel, getColor, getPixelColor, getPalette, toImageData, and
\* Bitmap.from(this.data)) are the operators above, applied to the state.
\* last and old record the call; the next call is made once the record of this
\* one is dropped.
Call(call, bytes) ==
  /\ Idle
  /\ last' = call
  /\ old' = data
  /\ data' = bytes
  /\ steps' = steps + 1
  /\ UNCHANGED << pc, file, err, width, height >>

\* The record of the last call is dropped; the bitmap stays as it is.
Forget ==
  /\ pc = "ready"
  /\ last.op # "none"
  /\ last' = [op |-> "none"]
  /\ old' = data
  /\ UNCHANGED << pc, file, err, width, height, data, steps >>

\* setPixel at every position of the range with every colour index, and
\* at the positions around the range with the largest index and the one after.
SetPixel ==
  /\ Idle
  /\ \E x \in Axis(width), y \in Axis(height), c \in IndexInputs :
       /\ withinImage(this, x, y) \/ c >= PALETTE_SIZE - 1
       /\ LET r == setPixel(this, x, y, c)
          IN  Call([op |-> "setPixel", x |-> x, y |-> y, c |-> c, ret |-> r.ret], r.data)

ClearImage ==
  /\ Idle
  /\ \E c \in ClearInputs :
       LET r == clearImage(this, c)
       IN  Call([op |-> "clearImage", c |-> c, ret |-> r.ret], r.data)

SetColor ==
  /\ Idle
  /\ \E index \in IndexInputs, color \in ColorInputs :
       /\ withinPalette(index) \/ color = Color(1, 2, 3, 4)
       /\ LET r == setColor(this, index, color)
          IN  Call([op |-> "setColor", index |-> index, color |-> color, ret |-> r.ret], r.data)

SetPalette ==
  /\ Idle
  /\ \E colors \in PaletteLists :
       LET r == setPalette(this, colors)
       IN  Call([op |-> "setPalette", colors |-> colors, ret |-> r.ret], r.data)

\* A drawing call of the Surface whose drawable is the bitmap.
Draw(call, drawn) == Call(call, drawn.data)

\* The shader list given to the drawing calls that mask: colour index 9 is
\* not drawn.
Mask == << MaskShader(9) >>

SurfacePixel ==
  /\ Idle
  /\ \E i \in { << 0, 11, << >> >>, << 0, 9, Mask >>, << 0, 11, Mask >>, << width, 11, << >> >> } :
       Draw([op |-> "pixel", x |-> i[1], y |-> 0, c |-> i[2], shaders |-> i[3]],
            pixel(this, i[1], 0, i[2], i[3]))

SurfaceClear ==
  /\ Idle
  /\ \E i \in { << 11, << >> >>, << 9, Mask >>, << 11, Mask >> } :
       Draw([op |-> "clear", c |-> i[1], shaders |-> i[2]], clear(this, i[1], i[2]))

SurfaceHLine ==
  /\ Idle
  /\ \E i \in { << -1, << >> >>, << 2, << >> >>, << 2, Mask >> } :
       Draw([op |-> "hline", x |-> 0, y |-> 0, size |-> i[1], c |-> 11, shaders |-> i[2]],
            hline(this, 0, 0, i[1], 11, i[2]))

SurfaceVLine ==
  /\ Idle
  /\ \E i \in { << -1, << >> >>, << 0, Mask >> } :
       Draw([op |-> "vline", x |-> 0, y |-> i[1], size |-> 2, c |-> 11, shaders |-> i[2]],
            vline(this, 0, i[1], 2, 11, i[2]))

SurfaceLine ==
  /\ Idle
  /\ \E i \in { << 0, << >> >>, << width, Mask >> } :
       Draw([op |-> "line", x1 |-> i[1], y1 |-> 0, x2 |-> 0, y2 |-> height - 1, c |-> 11,
             shaders |-> i[2]],
            line(this, i[1], 0, 0, height - 1, 11, i[2]))

SurfaceRectB ==
  /\ Idle
  /\ \E i \in { << -1, << >> >>, << 0, Mask >> } :
       Draw([op |-> "rectb", x |-> i[1], y |-> 0, w |-> 2, h |-> 1, c |-> 11, shaders |-> i[2]],
            rectb(this, i[1], 0, 2, 1, 11, i[2]))

SurfaceRectF ==
  /\ Idle
  /\ \E i \in { << -1, << >> >>, << 2, Mask >> } :
       Draw([op |-> "rectf", x |-> 0, y |-> 0, w |-> 2, h |-> i[1], c |-> 11, shaders |-> i[2]],
            rectf(this, 0, 0, 2, i[1], 11, i[2]))

SurfaceRect ==
  /\ Idle
  /\ \E i \in { << -1, << >> >>, << 0, Mask >> } :
       Draw([op |-> "rect", x |-> i[1], y |-> 0, w |-> 3, h |-> 3, c |-> 11, c2 |-> 9,
             shaders |-> i[2]],
            rect(this, i[1], 0, 3, 3, 11, 9, i[2]))

SurfaceBlitSub ==
  /\ Idle
  /\ \E i \in { << -1, << >> >>, << 0, << >> >>, << 2, Mask >> } :
       Draw([op |-> "blitsub", own |-> FALSE, x |-> 0, y |-> 0, cx |-> 1, cy |-> 0,
             w |-> 2, h |-> 1, scaleX |-> i[1], scaleY |-> 1, shaders |-> i[2]],
            blitsub(this, Other(Sprite), 0, 0, 1, 0, 2, 1, i[1], 1, i[2]))

SurfaceBlit ==
  /\ Idle
  /\ \E i \in { << Own, << >> >>, << Other(Sprite), Mask >> } :
       Draw([op |-> "blit", own |-> i[1].own, x |-> 1, y |-> 0, scaleX |-> 1,
             scaleY |-> -1, shaders |-> i[2]],
            blit(this, i[1], 1, 0, 1, -1, i[2]))

\* text() with a font of 1 x 1 glyphs, two to a row.
SurfaceText ==
  /\ Idle
  /\ \E i \in { << << "A", " ", "C" >>, << >> >>, << << "B", "\n", "C", "D" >>, Mask >> } :
       LET a == [x |-> 0, y |-> 0, cx |-> 0, cy |-> 0, width |-> 1, height |-> 1,
                 charset |-> << "A", "B", "C", "D" >>, charColumns |-> 2, text |-> i[1],
                 letterSpacing |-> 0, lineHeight |-> 0, scaleX |-> 1, scaleY |-> 1]
       IN  Draw([op |-> "text", a |-> a, shaders |-> i[2]],
                text(this, Other(Sprite), a, i[2]))

Next ==
  \/ New
  \/ FromGoodFile
  \/ SetPixel
  \/ ClearImage
  \/ SetColor
  \/ SetPalette
  \/ SurfacePixel
  \/ SurfaceClear
  \/ SurfaceHLine
  \/ SurfaceVLine
  \/ SurfaceLine
  \/ SurfaceRectB
  \/ SurfaceRectF
  \/ SurfaceRect
  \/ SurfaceBlitSub
  \/ SurfaceBlit
  \/ SurfaceText
  \/ Forget

Spec == Init /\ [][Next]_vars

\* The decoder alone, on well-formed and malformed files.
NextFrom == FromFile

SpecFrom == Init /\ [][NextFrom]_vars

(***************************************************************************)
(* The Surface alone: one drawing call on a canvas whose pixels all differ *)
(* from each other and from the pixels of the sheet that is blitted.       *)
(***************************************************************************)
\* The file of the canvas, 3 * MaxDim wide and 2 * MaxDim high; its pixels
\* hold 76, 77, ... in storage order.
CanvasFile == TestFile(3 * MaxDim, 2 * MaxDim, HEADER_SIZE + (3 * MaxDim) * (2 * MaxDim))

\* The bitmap blits and text read: MaxDim + 2 wide and MaxDim + 1 high, its
\* pixels holding 1, 2, ... in storage order, so that one of them holds 9.
Sheet ==
  LET blank == Bitmap(MaxDim + 2, MaxDim + 1, << >>)
  IN  [blank EXCEPT !.data = [i \in 1..Len(blank.data) |->
                                IF i > HEADER_SIZE THEN i - HEADER_SIZE ELSE blank.data[i]]]

\* The shaders given to pixel(), and the lists of up to MaxShaders of them.
Shaders == { MaskShader(9), ShiftShader(2), UndoShader(1) }
ShaderLists == UNION { [1..n -> Shaders] : n \in 0..MaxShaders }

\* Lengths and sizes: negative, zero, and up to one more than MaxDim.
Sizes == (-(MaxDim + 1))..(MaxDim + 1)

\* Scale factors of a blit.
Scales == (-MaxScale)..MaxScale

\* Bitmap.from of the canvas file.
OpenCanvas ==
  \E bytes \in { CanvasFile } : Decode(Whole(bytes))

\* The canvas is as Bitmap.from left it.
Fresh == pc = "ready" /\ last.op = "from"

\* A drawing call on the canvas as Bitmap.from left it.
Paint(call, drawn) ==
  /\ Fresh
  /\ last' = call
  /\ old' = data
  /\ data' = drawn.data
  /\ steps' = steps + 1
  /\ UNCHANGED << pc, file, err, width, height >>

PaintPixel ==
  /\ Fresh
  /\ \E x \in -1..width, y \in Axis(height), c \in { -1, 9, 11, PALETTE_SIZE - 1, PALETTE_SIZE },
        shaders \in ShaderLists :
       LET r == pixelRun(this, x, y, c, shaders)
       IN  Paint([op |-> "pixel", x |-> x, y |-> y, c |-> c, shaders |-> shaders,
                  calls |-> r.calls, commits |-> r.commits], r.bmp)

PaintClear ==
  /\ Fresh
  /\ \E c \in ClearInputs \cup { 11, PALETTE_SIZE }, shaders \in { << >>, Mask } :
       Paint([op |-> "clear", c |-> c, shaders |-> shaders], clear(this, c, shaders))

PaintHLine ==
  /\ Fresh
  /\ \E x \in { -1, 0, 2, width - 1 }, y \in { 0, 1, height }, size \in Sizes,
        c \in { 9, 11, PALETTE_SIZE }, shaders \in { << >>, Mask } :
       Paint([op |-> "hline", x |-> x, y |-> y, size |-> size, c |-> c, shaders |-> shaders],
             hline(this, x, y, size, c, shaders))

PaintVLine ==
  /\ Fresh
  /\ \E x \in { 0, 1, width }, y \in { -1, 0, 2, height - 1 }, size \in Sizes,
        c \in { 9, 11, PALETTE_SIZE }, shaders \in { << >>, Mask } :
       Paint([op |-> "vline", x |-> x, y |-> y, size |-> size, c |-> c, shaders |-> shaders],
             vline(this, x, y, size, c, shaders))

PaintLine ==
  /\ Fresh
  /\ \E x1 \in { -1, 0, width - 1 }, y1 \in { 0, height - 1 }, x2 \in { 0, 2, width },
        y2 \in { 0, 1, height - 1 }, c \in { 9, 11 }, shaders \in { << >>, Mask } :
       Paint([op |-> "line", x1 |-> x1, y1 |-> y1, x2 |-> x2, y2 |-> y2, c |-> c,
              shaders |-> shaders],
             line(this, x1, y1, x2, y2, c, shaders))

PaintRectB ==
  /\ Fresh
  /\ \E x \in { -1, 0, 1 }, y \in { 0, 1 }, w \in Sizes, h \in Sizes, c \in { 9, 11 },
        shaders \in { << >>, Mask } :
       Paint([op |-> "rectb", x |-> x, y |-> y, w |-> w, h |-> h, c |-> c, shaders |-> shaders],
             rectb(this, x, y, w, h, c, shaders))

PaintRectF ==
  /\ Fresh
  /\ \E x \in { -1, 0, 1 }, y \in { 0, 1 }, w \in Sizes, h \in Sizes, c \in { 9, 11 },
        shaders \in { << >>, Mask } :
       Paint([op |-> "rectf", x |-> x, y |-> y, w |-> w, h |-> h, c |-> c, shaders |-> shaders],
             rectf(this, x, y, w, h, c, shaders))

PaintRect ==
  /\ Fresh
  /\ \E x \in { -1, 0, 1 }, y \in { 0, 1 }, w \in Sizes, h \in Sizes,
        c \in { << 9, 9 >>, << 11, 9 >>, << 9, 12 >>, << 11, PALETTE_SIZE >>,
              << PALETTE_SIZE, -1 >> },
        shaders \in { << >>, Mask } :
       Paint([op |-> "rect", x |-> x, y |-> y, w |-> w, h |-> h, c |-> c[1], c2 |-> c[2],
              shaders |-> shaders],
             rect(this, x, y, w, h, c[1], c[2], shaders))

PaintBlitSub ==
  /\ Fresh
  /\ \E x \in { -1, 0, 1 }, y \in { 0, 1 }, cx \in { 0, 1 }, cy \in { 0, MaxDim },
        w \in 0..MaxDim, h \in 0..MaxDim, scaleX \in Scales, scaleY \in Scales,
        shaders \in { << >>, Mask } :
       Paint([op |-> "blitsub", x |-> x, y |-> y, cx |-> cx, cy |-> cy, w |-> w, h |-> h,
              scaleX |-> scaleX, scaleY |-> scaleY, shaders |-> shaders],
             blitsub(this, Other(Sheet), x, y, cx, cy, w, h, scaleX, scaleY, shaders))

PaintBlit ==
  /\ Fresh
  /\ \E x \in { -1, 0, 1, width - 1 }, y \in { -1, 0, 1 }, scaleX \in Scales, scaleY \in Scales,
        shaders \in { << >>, Mask } :
       Paint([op |-> "blit", x |-> x, y |-> y, scaleX |-> scaleX, scaleY |-> scaleY,
              shaders |-> shaders],
             blit(this, Other(Sheet), x, y, scaleX, scaleY, shaders))

\* The fonts text() is given on the sheet: the charset and the characters
\* per row, the glyphs being 1 x 1.
Fonts == { << << "A", "B" >>, 2 >>, << << "A", "B", "C", "D", "E" >>, 2 >>,
           << << "A", "B", "C", "D" >>, 3 >> }

\* The texts text() is given.
Texts == { << >>, << "A", " ", "C" >>, << "B", "\n", "A", "B" >>, << "E", "D", "\n", "\n", "C" >>,
           << "A", "A", "B", "A" >> }

PaintText ==
  /\ Fresh
  /\ \E font \in Fonts, chars \in Texts, x \in { 0, 1 }, cx \in { 0, 1 }, size \in { 1, 2 },
        spacing \in { << 0, 0 >>, << 1, 1 >>, << -1, 0 >> }, scale \in { 1, -1, MaxScale },
        shaders \in { << >>, Mask } :
       LET a == [x |-> x, y |-> 0, cx |-> cx, cy |-> 0, width |-> size, height |-> 1,
                 charset |-> font[1], charColumns |-> font[2], text |-> chars,
                 letterSpacing |-> spacing[1], lineHeight |-> spacing[2],
                 scaleX |-> scale, scaleY |-> 1]
           r == textRun(this, Other(Sheet), a, shaders)
       IN  Paint([op |-> "text", a |-> a, shaders |-> shaders, blits |-> r.blits,
                  line |-> r.line, column |-> r.column], r.bmp)

NextSurface ==
  \/ OpenCanvas
  \/ PaintPixel
  \/ PaintClear
  \/ PaintHLine
  \/ PaintVLine
  \/ PaintLine
  \/ PaintRectB
  \/ PaintRectF
  \/ PaintRect
  \/ PaintBlitSub
  \/ PaintBlit
  \/ PaintText

SpecSurface == Init /\ [][NextSurface]_vars

(***************************************************************************)
(* The lines and rectangles of Surface alone: one call of line, rectb,     *)
(* rectf or rect on the canvas.                                            *)
(***************************************************************************)
NextShapes ==
  \/ OpenCanvas
  \/ PaintLine
  \/ PaintRectB
  \/ PaintRectF
  \/ PaintRect

SpecShapes == Init /\ [][NextShapes]_vars

(***************************************************************************)
(* The Bitmap of the versions 0.0.x: its fields are width, height, colors  *)
(* and pixels, an array of width * height bytes with the rows top-down.    *)
(* In this specification data holds pixels, and every bitmap is made with  *)
(* the four colours of defaultPalette.                                     *)
(***************************************************************************)
\* isOffsetValid(offset)
isOffsetValid(bmp, offset) == offset >= 0 /\ offset < Len(bmp.data)

\* isColorValid(color), colors being defaultPalette
isColorValid(color) == color >= 0 /\ color < Len(defaultPalette)

\* getPixel(x, y) of 0.0.x
getPixelOld(bmp, x, y) ==
  LET offset == (bmp.width * y) + x
  IN  IF isOffsetValid(bmp, offset) THEN At(bmp.data, offset) ELSE -1

\* setPixel(x, y, color) of 0.0.x: the new pixels and the value returned.
setPixelOld(bmp, x, y, color) ==
  LET offset == (bmp.width * y) + x
  IN  IF isOffsetValid(bmp, offset) /\ isColorValid(color)
      THEN [data |-> Put(bmp.data, offset, color), ret |-> TRUE]
      ELSE [data |-> bmp.data, ret |-> FALSE]

\* new Bitmap(w, h, defaultPalette) of 0.0.x
OldNew ==
  /\ pc = "start"
  /\ \E w \in 0..(MaxDim + 1), h \in 0..(MaxDim + 1) :
       /\ pc' = "ready"
       /\ width' = w
       /\ height' = h
       /\ data' = Uint8Array(w * h)
       /\ old' = Uint8Array(w * h)
       /\ last' = [op |-> "new", w |-> w, h |-> h]
       /\ UNCHANGED << file, err, steps >>

\* setPixel of 0.0.x on the bitmap as the constructor left it, at the
\* positions in and around the range.
OldSetPixel ==
  /\ pc = "ready"
  /\ last.op = "new"
  /\ \E x \in -1..width, y \in -1..height, c \in { -1, 0, 3, 4 } :
       \E r \in { setPixelOld(this, x, y, c) } :
         /\ last' = [op |-> "setPixel", x |-> x, y |-> y, c |-> c, ret |-> r.ret]
         /\ old' = data
         /\ data' = r.data
         /\ steps' = steps + 1
         /\ UNCHANGED << pc, file, err, width, height >>

NextOld ==
  \/ OldNew
  \/ OldSetPixel

SpecOld == Init /\ [][NextOld]_vars

(***************************************************************************)
(* The Surface of the compiled library 1.0.2b: one call of rectb, rectf or *)
(* rect on the canvas.                                                     *)
(***************************************************************************)
LibRectB ==
  /\ Fresh
  /\ \E x \in { -1, 0, 1 }, y \in { 0, 1 }, w \in Sizes, h \in Sizes, c \in { 9, 11 },
        shaders \in { << >>, Mask } :
       Paint([op |-> "rectb", x |-> x, y |-> y, w |-> w, h |-> h, c |-> c, shaders |-> shaders],
             rectbLib(this, x, y, w, h, c, shaders))

LibRectF ==
  /\ Fresh
  /\ \E x \in { -1, 0, 1 }, y \in { 0, 1 }, w \in Sizes, h \in Sizes, c \in { 9, 11 },
        shaders \in { << >>, Mask } :
       Paint([op |-> "rectf", x |-> x, y |-> y, w |-> w, h |-> h, c |-> c, shaders |-> shaders],
             rectfLib(this, x, y, w, h, c, shaders))

LibRect ==
  /\ Fresh
  /\ \E x \in { -1, 0, 1 }, y \in { 0, 1 }, w \in Sizes, h \in Sizes,
        c \in { << 9, 9 >>, << 11, 9 >>, << 9, 12 >> }, shaders \in { << >>, Mask } :
       Paint([op |-> "rect", x |-> x, y |-> y, w |-> w, h |-> h, c |-> c[1], c2 |-> c[2],
              shaders |-> shaders],
             rectLib(this, x, y, w, h, c[1], c[2], shaders))

NextLib ==
  \/ OpenCanvas
  \/ LibRectB
  \/ LibRectF
  \/ LibRect

SpecLib == Init /\ [][NextLib]_vars

(***************************************************************************)
(* Blits whose drawable is the surface's own: one call on the canvas.      *)
(***************************************************************************)
OwnBlitSub ==
  /\ Fresh
  /\ \E x \in { -1, 0, 1 }, y \in { -1, 0, 1 }, cx \in { 0, 1 }, cy \in { 0, 1 },
        w \in 1..(MaxDim + 1), h \in 1..MaxDim, scaleX \in { 1, -1, MaxScale },
        scaleY \in { 1, -1 }, shaders \in { << >>, Mask } :
       Paint([op |-> "blitsub", x |-> x, y |-> y, cx |-> cx, cy |-> cy, w |-> w, h |-> h,
              scaleX |-> scaleX, scaleY |-> scaleY, shaders |-> shaders],
             blitsub(this, Own, x, y, cx, cy, w, h, scaleX, scaleY, shaders))

OwnBlit ==
  /\ Fresh
  /\ \E x \in -1..1, y \in -1..1, scaleX \in Scales, scaleY \in { 1, -1 } :
       Paint([op |-> "blit", x |-> x, y |-> y, scaleX |-> scaleX, scaleY |-> scaleY,
              shaders |-> << >>],
             blit(this, Own, x, y, scaleX, scaleY, << >>))

NextOwn ==
  \/ OpenCanvas
  \/ OwnBlitSub
  \/ OwnBlit

SpecOwn == Init /\ [][NextOwn]_vars

(***************************************************************************)
(* util, DataGrid and PixelGrid: grids of 8, 4 or 2 cells to the byte.     *)
(* In this specification width, height and data are the grid's, and the    *)
(* call on record carries the grid's format.                               *)
(***************************************************************************)
\* a & b, for a >= 0 and b >= 0
RECURSIVE BitAnd(_, _)
BitAnd(a, b) ==
  IF a = 0 \/ b = 0 THEN 0
  ELSE ((a % 2) * (b % 2)) + (2 * BitAnd(a \div 2, b \div 2))

\* a >> n, for a >= 0
ShiftRight(a, n) == a \div (2 ^ n)

\* GridFormat
Bits == 8
HalfNibbles == 4
Nibbles == 2
GridFormat == { Bits, HalfNibbles, Nibbles }

\* util.splitBits(value): result[i] at i + 1
splitBits(value) == [k \in 1..8 |-> BitAnd(ShiftRight(value, 7 - (k - 1)), 1)]

\* util.joinBits(array): array[7], then array[i] * pow for i = 0 .. 6 with
\* pow = 128, 64, ..
joinBits(array) ==
  array[8] + (array[1] * 128) + (array[2] * 64) + (array[3] * 32) + (array[4] * 16) +
  (array[5] * 8) + (array[6] * 4) + (array[7] * 2)

\* util.splitHalfNibbles(value): pow = 192, 48, 12, 3 and shift = 6, 4, 2, 0
splitHalfNibbles(value) ==
  [k \in 1..4 |-> ShiftRight(BitAnd(value, 192 \div (4 ^ (k - 1))), 6 - (2 * (k - 1)))]

\* util.joinHalfNibbles(array)
joinHalfNibbles(array) ==
  LET hi == (array[1] * 4) + array[2]
      lo == (array[3] * 4) + array[4]
  IN  (hi * 16) + lo

\* util.splitNibbles(value)
splitNibbles(value) == << ShiftRight(value, 4), BitAnd(value, 15) >>

\* util.joinNibbles(array)
joinNibbles(array) == (array[1] * 16) + array[2]

\* DataGrid.within(x, y)
within(grid, x, y) == (x >= 0 /\ x < grid.width) /\ (y >= 0 /\ y < grid.height)

\* The offset DataGrid.getAt and setAt compute for (x, y).
gridOffset(grid, x, y) == (y * (grid.width \div grid.format)) + (x \div grid.format)

\* DataGrid.getAt(x, y)
getAt(grid, x, y) ==
  IF ~within(grid, x, y) THEN 0
  ELSE LET index == x % grid.format
           content == At(grid.data, gridOffset(grid, x, y))
       IN  IF grid.format = HalfNibbles THEN splitHalfNibbles(content)[index + 1]
           ELSE IF grid.format = Nibbles THEN splitNibbles(content)[index + 1]
           ELSE splitBits(content)[index + 1]

\* DataGrid.setAt(x, y, value), for value >= 0: the new data and the value
\* returned.
setAt(grid, x, y, value) ==
  IF ~within(grid, x, y) THEN [data |-> grid.data, ret |-> FALSE]
  ELSE LET offset == gridOffset(grid, x, y)
           index == abs(x % grid.format)
           content == At(grid.data, offset)
           joined ==
             IF grid.format = Bits
             THEN joinBits([splitBits(content) EXCEPT ![index + 1] = value % 2])
             ELSE IF grid.format = HalfNibbles
             THEN joinHalfNibbles([splitHalfNibbles(content) EXCEPT ![(3 - index) + 1] = value % 4])
             ELSE IF grid.format = Nibbles
             THEN joinNibbles([splitNibbles(content) EXCEPT ![(1 - index) + 1] = value % 16])
             ELSE content
       IN  [data |-> Put(grid.data, offset, joined), ret |-> TRUE]

\* PixelGrid.getPixel and PixelGrid.setPixel
gridGetPixel(grid, x, y) == getAt(grid, x, y)
gridSetPixel(grid, x, y, primaryColor) == setAt(grid, x, y, primaryColor)

\* The grid of the state, and the grid before the last call.
grid == [width |-> width, height |-> height, data |-> data, format |-> last.format]
gridBefore == [width |-> width, height |-> height, data |-> old, format |-> last.format]

\* new PixelGrid(w, h, format), w a multiple of the cells to the byte
GridNew ==
  /\ pc = "start"
  /\ \E format \in GridFormat, n \in 1..MaxDim, h \in 1..MaxDim :
       /\ pc' = "ready"
       /\ width' = n * format
       /\ height' = h
       /\ data' = Uint8Array((n * format * h) \div format)
       /\ old' = Uint8Array((n * format * h) \div format)
       /\ last' = [op |-> "grid", format |-> format]
       /\ UNCHANGED << file, err, steps >>

\* setPixel on a grid, at positions in and around its range: the grid as
\* constructed takes one call, and then MaxOps more.
GridSetPixel ==
  /\ pc = "ready"
  /\ last.op \in { "grid", "gridSetPixel" }
  /\ steps <= MaxOps
  /\ \E x \in { -1, 0, 1, last.format - 1, last.format, width - 1, width },
        y \in { -1, 0, height - 1, height }, v \in { 0, 1, 3, 6, 17 } :
       \E r \in { gridSetPixel(grid, x, y, v) } :
         /\ last' = [op |-> "gridSetPixel", format |-> last.format, x |-> x, y |-> y,
                     v |-> v, ret |-> r.ret]
         /\ old' = data
         /\ data' = r.data
         /\ steps' = steps + 1
         /\ UNCHANGED << pc, file, err, width, height >>

\* A byte split and joined again, in each of the three ways.
UtilJoin ==
  /\ pc = "start"
  /\ \E b \in 0..255 :
       /\ pc' = "ready"
       /\ last' = [op |-> "join", value |-> b, bits |-> joinBits(splitBits(b)),
                   halfNibbles |-> joinHalfNibbles(splitHalfNibbles(b)),
                   nibbles |-> joinNibbles(splitNibbles(b))]
       /\ UNCHANGED << file, err, width, height, data, old, steps >>

NextGrid ==
  \/ GridNew
  \/ GridSetPixel
  \/ UtilJoin

SpecGrid == Init /\ [][NextGrid]_vars

(***************************************************************************)
(* Properties                                                              *)
(***************************************************************************)
\* A bitmap exists and no call on it is on record: every bitmap the calls
\* produce is the bitmap of such a state.
Settled == pc = "ready" /\ last.op = "none"

\* The positions in and around the range of the bitmap, and all its indices.
Positions == { << x, y >> : x \in -1..width, y \in -1..height }
Indices == 0..(PALETTE_SIZE - 1)
OutOfRange(x, y) == x < 0 \/ x >= width \/ y < 0 \/ y >= height

\* The bitmaps hold the same palette entries and the same pixels.
SameContents(a, b) ==
  /\ a.width = b.width
  /\ a.height = b.height
  /\ \A i \in Indices : getColor(a, i) = getColor(b, i)
  /\ \A x \in 0..(a.width - 1), y \in 0..(a.height - 1) : getPixel(a, x, y) = getPixel(b, x, y)

\* C1: Bitmap.from(b.data) succeeds for every bitmap b made by the constructor
\* and changed by any calls, and returns a bitmap of the same width and height
\* with the same 256 palette entries and the same pixels.
RoundTrip ==
  Settled => LET again == from(Whole(data))
             IN  again.err = "none" /\ SameContents(again, this)

\* A bitmap made by the constructor whose palette and pixels calls have changed.
RoundTripWitness ==
  /\ Settled
  /\ last.op = "none"
  /\ file.byteLength = 0
  /\ steps > 0
  /\ \E i \in Indices : getColor(this, i) # Color(0, 0, 0, 0)
  /\ \E x \in 0..(width - 1), y \in 0..(height - 1) : getPixel(this, x, y) # 0
  /\ SameContents(from(Whole(data)), this)

\* C2: at every position outside the range getPixel returns -1, and setPixel
\* there returns false and changes no byte, whatever the colour index.
OutsideImage ==
  /\ pc = "ready" =>
       \A p \in Positions : OutOfRange(p[1], p[2]) => getPixel(this, p[1], p[2]) = -1
  /\ (pc = "ready" /\ last.op = "setPixel" /\ OutOfRange(last.x, last.y)) =>
       (last.ret = FALSE /\ data = old)

\* setPixel was called outside the range with a colour index of the palette.
OutsideImageWitness ==
  /\ pc = "ready"
  /\ last.op = "setPixel"
  /\ OutOfRange(last.x, last.y)
  /\ last.c \in Indices
  /\ last.x = width
  /\ getPixel(this, last.x, last.y) = -1

\* C3: setPixel(x, y, c) in the range with c in 0..255 returns true, stores c
\* at offset 1078 + width * (height - 1 - y) + x and nowhere else; getPixel(x, y)
\* then returns c and getPixel elsewhere is as before.  Row y = 0 is the last
\* stored row and row y = height - 1 the first.
RowInversion ==
  (pc = "ready" /\ last.op = "setPixel" /\ ~OutOfRange(last.x, last.y) /\ last.c \in Indices) =>
    LET offset == 1078 + width * (height - 1 - last.y) + last.x
    IN  /\ last.ret = TRUE
        /\ data = [old EXCEPT ![offset + 1] = last.c]
        /\ getPixel(this, last.x, last.y) = last.c
        /\ \A p \in Positions :
             p # << last.x, last.y >> => getPixel(this, p[1], p[2]) = getPixel(before, p[1], p[2])
        /\ last.y = 0 => offset >= Len(data) - width
        /\ last.y = height - 1 => offset < 1078 + width

\* setPixel changed the pixel at the top left of a bitmap of several rows.
RowInversionWitness ==
  /\ pc = "ready"
  /\ last.op = "setPixel"
  /\ last.x = 0
  /\ last.y = 0
  /\ height > 1
  /\ last.ret = TRUE
  /\ data # old
  /\ data[Len(data) - width + 1] = last.c

\* The fields of a file as the format lays them out, read from its bytes.
LE16(bytes, offset) == bytes[offset + 1] + 256 * bytes[offset + 2]
LE32(bytes, offset) == LE16(bytes, offset) + 65536 * LE16(bytes, offset + 2)
Magic(bytes) == 256 * bytes[1] + bytes[2]

\* The first of the conditions of Bitmap.from that the bytes violate, reading
\* the compression field as the 16 bits at offset 30; "none" when they violate
\* none.
FirstViolated(bytes) ==
  IF Len(bytes) < 1078 THEN "TruncatedInput"
  ELSE IF Magic(bytes) # 16973 THEN "BadSignature"
  ELSE IF LE32(bytes, 10) # 1078 THEN "BadDataOffset"
  ELSE IF LE32(bytes, 18) <= 0 \/ LE32(bytes, 22) <= 0 THEN "InvalidDimensions"
  ELSE IF LE16(bytes, 28) # 8 THEN "UnsupportedDepth"
  ELSE IF LE16(bytes, 30) # 0 THEN "UnsupportedCompression"
  ELSE "none"

\* C4: Bitmap.from returns no bitmap and raises the error of the first
\* condition its input violates, in the order length, magic, data offset,
\* dimensions, bits per pixel, compression.
FromOrder ==
  pc # "start" =>
    LET first == FirstViolated(Bytes(file))
    IN  first # "none" => (pc = "failed" /\ err = first)

\* C4 for the arrays that are the whole of their buffer.
FromOrderWhole == file.byteOffset = 0 => FromOrder

\* Two conditions are violated at once and the error is that of the first.
FromOrderWitness ==
  /\ pc = "failed"
  /\ file.byteOffset = 0
  /\ file.byteLength >= 1078
  /\ LE32(Bytes(file), 10) # 1078
  /\ LE16(Bytes(file), 30) # 0
  /\ err = "BadDataOffset"

\* C5: Bitmap.from succeeds for every input that passes the six checks,
\* whatever its length: the bitmap has width * height pixels and its bytes from
\* offset 54 on are those of the input, zero where the input is shorter; and no
\* error is raised but those of the six checks.
FromAccepts ==
  (pc # "start" /\ file.byteOffset = 0) =>
    LET bytes == Bytes(file)
    IN  /\ err \in { "none", "TruncatedInput", "BadSignature", "BadDataOffset",
                     "InvalidDimensions", "UnsupportedDepth", "UnsupportedCompression" }
        /\ (FirstViolated(bytes) = "none" /\ LE32(bytes, 30) = 0) =>
             /\ pc = "ready"
             /\ width = LE32(bytes, 18)
             /\ height = LE32(bytes, 22)
             /\ Len(data) = 1078 + width * height
             /\ \A i \in 54..(Len(data) - 1) :
                  data[i + 1] = IF i < Len(bytes) THEN bytes[i + 1] ELSE 0

\* C6: Bitmap.from rejects every input whose compression field, the four
\* bytes 30..33, is not zero.
FromRejectsCompressed ==
  (pc # "start" /\ file.byteOffset = 0 /\ file.byteLength >= 1078
     /\ LE32(Bytes(file), 30) # 0) => pc = "failed"

\* The bytes of n, least significant first.
Bytes2(n) == << n % 256, n \div 256 >>
Bytes4(n) == << n % 256, (n \div 256) % 256, (n \div 65536) % 256, n \div 16777216 >>

\* The header of a w x h bitmap: magic, file size, reserved, data offset,
\* info-header size, width, height, planes, bits per pixel, compression,
\* compressed size, the two resolutions, colours used, important colours.
CanonicalHeader(w, h) ==
  << 66, 77 >> \o Bytes4(1078 + w * h) \o Bytes4(0) \o Bytes4(1078) \o Bytes4(40)
    \o Bytes4(w) \o Bytes4(h) \o Bytes2(1) \o Bytes2(8) \o Bytes4(0) \o Bytes4(0)
    \o Bytes4(2834) \o Bytes4(2834) \o Bytes4(256) \o Bytes4(256)

\* C7: every bitmap, made by the constructor or by Bitmap.from and changed by
\* any calls, has 1078 + width * height bytes of which the first 54 are the
\* canonical header of its width and height; the bitmap Bitmap.from returns is
\* that header followed by the bytes of the input from offset 54 on, whatever
\* else the first 54 bytes of the input hold.
HeaderInvariant ==
  pc = "ready" =>
    /\ Len(data) = 1078 + width * height
    /\ SubSeq(data, 1, 54) = CanonicalHeader(width, height)
    /\ (last.op = "from" /\ file.byteOffset = 0 /\ file.byteLength = Len(data)) =>
         data = CanonicalHeader(LE32(file.buffer, 18), LE32(file.buffer, 22))
                  \o SubSeq(file.buffer, 55, file.byteLength)

\* A bitmap made by Bitmap.from of a file with junk in its header, after a
\* drawing call that changed it.
HeaderInvariantWitness ==
  /\ pc = "ready"
  /\ file.byteLength > 0
  /\ \A m \in Junk : At(file.buffer, m[1]) = m[2] /\ At(data, m[1]) # m[2]
  /\ last.op = "rectf"
  /\ data # old

\* C8: for an index outside 0..255 getColor returns (0, 0, 0, 0) and setColor
\* returns false and changes no byte; getPixelColor returns (0, 0, 0, 0) at
\* every position outside the range.
PaletteBounds ==
  /\ pc = "ready" =>
       /\ \A i \in { -2, -1, 256, 257 } : getColor(this, i) = Color(0, 0, 0, 0)
       /\ \A p \in Positions :
            OutOfRange(p[1], p[2]) => getPixelColor(this, p[1], p[2]) = Color(0, 0, 0, 0)
  /\ (pc = "ready" /\ last.op = "setColor" /\ (last.index < 0 \/ last.index >= 256)) =>
       (last.ret = FALSE /\ data = old)

\* setColor was called with index 256 on a bitmap whose palette and first
\* pixel are not zero.
PaletteBoundsWitness ==
  /\ pc = "ready"
  /\ last.op = "setColor"
  /\ last.index = 256
  /\ getColor(this, 0) # Color(0, 0, 0, 0)
  /\ At(data, 1078) # 0
  /\ getColor(this, 256) = Color(0, 0, 0, 0)

\* C9: setColor(i, color) with i in 0..255 and channels in 0..255 returns
\* true, stores b, g, r, a at offsets 54 + 4i .. 54 + 4i + 3 and nothing else;
\* getColor(i) then returns the colour and getColor(j) is as before for j # i.
PaletteEntry ==
  (pc = "ready" /\ last.op = "setColor" /\ last.index \in Indices
     /\ \A v \in { last.color.r, last.color.g, last.color.b, last.color.a } : v \in 0..255) =>
    LET offset == 54 + 4 * last.index
    IN  /\ last.ret = TRUE
        /\ data = [old EXCEPT ![offset + 1] = last.color.b, ![offset + 2] = last.color.g,
                              ![offset + 3] = last.color.r, ![offset + 4] = last.color.a]
        /\ getColor(this, last.index) = last.color
        /\ \A j \in Indices : j # last.index => getColor(this, j) = getColor(before, j)

\* setColor stored a colour of four different channels in the last entry.
PaletteEntryWitness ==
  /\ pc = "ready"
  /\ last.op = "setColor"
  /\ last.index = 255
  /\ last.color = Color(255, 0, 128, 254)
  /\ SubSeq(data, 1075, 1078) = << 128, 0, 255, 254 >>
  /\ data # old

\* C10: setPalette of n colours makes entry i the i-th colour for i < n and
\* i < 256, leaves the entries from n on and every byte outside 54..1077 as they
\* were, and returns true exactly when n <= 256.
PaletteList ==
  (pc = "ready" /\ last.op = "setPalette") =>
    LET n == Len(last.colors)
    IN  /\ \A i \in Indices : getColor(this, i) = IF i < n THEN last.colors[i + 1]
                                                  ELSE getColor(before, i)
        /\ Len(data) = Len(old)
        /\ \A k \in (0..53) \cup (1078..(Len(data) - 1)) : At(data, k) = At(old, k)
        /\ last.ret = (n <= 256)

\* setPalette was given 257 colours and changed the palette.
PaletteListWitness ==
  /\ pc = "ready"
  /\ last.op = "setPalette"
  /\ Len(last.colors) = 257
  /\ last.ret = FALSE
  /\ data # old
  /\ getColor(this, 255) = last.colors[256]

\* The masks given to toImageData: none, and colour indices the bitmaps hold.
MaskInputs == { -1, 0, 76, 255 }

\* C11: toImageData(mask) returns width * height * 4 bytes, rows top-down:
\* the four bytes of pixel (x, y), at 4 * (width * y + x), are 0 when the pixel
\* equals the mask and otherwise r, g, b of its palette entry and 255; no byte
\* of the bitmap changes.
ImageData ==
  Settled =>
    \A mask \in MaskInputs :
      LET r == toImageData(this, mask)
      IN  /\ r.data = data
          /\ Len(r.ret) = width * height * 4
          /\ \A x \in 0..(width - 1), y \in 0..(height - 1) :
               LET c == getColor(this, getPixel(this, x, y))
               IN  SubSeq(r.ret, 4 * (width * y + x) + 1, 4 * (width * y + x) + 4) =
                     IF getPixel(this, x, y) = mask THEN << 0, 0, 0, 0 >>
                     ELSE << c.r, c.g, c.b, 255 >>

\* A bitmap of several rows whose top left pixel differs from the one below
\* it and has a palette entry with an alpha that is neither 0 nor 255.
ImageDataWitness ==
  /\ Settled
  /\ height > 1
  /\ getPixel(this, 0, 0) # getPixel(this, 0, 1)
  /\ getColor(this, getPixel(this, 0, 0)).a \in 1..254
  /\ SubSeq(toImageData(this, -1).ret, 1, 4) # SubSeq(toImageData(this, -1).ret, 4 * width + 1, 4 * width + 4)
  /\ toImageData(this, getPixel(this, 0, 0)).ret[4] = 0

(***************************************************************************)
(* The Surface                                                             *)
(***************************************************************************)
\* A drawing call on the canvas is on record.
Painted == pc = "ready" /\ last.op \notin { "none", "new", "from" }

\* The positions of the bitmap.
Inside == { << x, y >> : x \in 0..(width - 1), y \in 0..(height - 1) }

\* The blit on record, made on the canvas as it was, with the given shaders.
Reblit(shaders) ==
  CASE last.op = "blitsub" ->
         blitsub(before, Other(Sheet), last.x, last.y, last.cx, last.cy, last.w, last.h,
                 last.scaleX, last.scaleY, shaders)
    [] last.op = "blit" ->
         blit(before, Other(Sheet), last.x, last.y, last.scaleX, last.scaleY, shaders)
    [] last.op = "text" -> text(before, Other(Sheet), last.a, shaders)

\* C12: a primitive (pixel, hline, vline, line, rectb, rectf, rect, clear)
\* called with colour index 9 and the shaders << MaskShader(9) >> leaves every
\* pixel of the target as it was; and after blitsub, blit or text with these
\* shaders no pixel of the target holds 9 (none did before), while every
\* pixel that the same call without shaders leaves at another value than 9
\* holds that value.
ShaderMasking ==
  (Painted /\ last.shaders = Mask) =>
    /\ (last.op \in { "pixel", "clear", "hline", "vline", "line", "rectb", "rectf" }
        /\ last.c = 9) => data = old
    /\ (last.op = "rect" /\ last.c = 9 /\ last.c2 = 9) => data = old
    /\ last.op \in { "blitsub", "blit", "text" } =>
         LET plain == Reblit(<< >>)
         IN  \A pos \in Inside :
               /\ getPixel(this, pos[1], pos[2]) # 9
               /\ getPixel(plain, pos[1], pos[2]) # 9 =>
                    getPixel(this, pos[1], pos[2]) = getPixel(plain, pos[1], pos[2])

\* A blitsub with the mask that wrote some pixels and left out one that the
\* call without shaders writes with 9.
ShaderMaskingWitness ==
  /\ Painted
  /\ last.op = "blitsub"
  /\ last.shaders = Mask
  /\ data # old
  /\ \E pos \in Inside : getPixel(Reblit(<< >>), pos[1], pos[2]) = 9

\* The pixel that pixel() commits according to the record of its call: the
\* result of the last shader, the pixel asked for when there is no shader.
Final ==
  IF Len(last.shaders) = 0
  THEN Pixel(last.x, last.y, last.c)
  ELSE last.calls[Len(last.shaders)].result

\* C13: pixel(x, y, c, shaders) calls each shader once, in list order; the
\* candidate given to the first is (x, y, c), the candidate given to each
\* later one is the pixel the one before it returned; and there is one
\* commit, setPixel at the position and colour of the pixel the last shader
\* returned, or of (x, y, c) when the list is empty.
ShaderChain ==
  (Painted /\ last.op = "pixel") =>
    /\ Len(last.calls) = Len(last.shaders)
    /\ \A k \in 1..Len(last.shaders) :
         /\ last.calls[k].result =
              pixelShader(last.shaders[k], last.calls[k].previous, last.calls[k].next)
         /\ last.calls[k].next =
              IF k = 1 THEN Pixel(last.x, last.y, last.c) ELSE last.calls[k - 1].result
    /\ Len(last.commits) = 1
    /\ last.commits[1].x = Final.x
    /\ last.commits[1].y = Final.y
    /\ last.commits[1].color = Final.color
    /\ data = setPixel(before, Final.x, Final.y, Final.color).data

\* pixel() with two shaders that each return another pixel than they were
\* given, whose commit changed the canvas.
ShaderChainWitness ==
  /\ Painted
  /\ last.op = "pixel"
  /\ Len(last.shaders) = 2
  /\ last.calls[1].result # Pixel(last.x, last.y, last.c)
  /\ last.calls[2].result # last.calls[1].result
  /\ data # old

\* The previous pixel given to the first shader is the pixel of the target
\* at (x, y).
FirstPrevious ==
  Len(last.shaders) > 0 =>
    last.calls[1].previous = Pixel(last.x, last.y, getPixel(before, last.x, last.y))

\* C14 as stated: the previous pixel given to the first shader is the target's
\* pixel at (x, y), and the previous pixel given to each later shader is the
\* pixel the shader before it returned.
RollingPreviousOutput ==
  (Painted /\ last.op = "pixel") =>
    /\ FirstPrevious
    /\ \A k \in 2..Len(last.shaders) : last.calls[k].previous = last.calls[k - 1].result

\* C14, amended: the previous pixel given to the first shader is the target's
\* pixel at (x, y), and the previous pixel given to each later shader is the
\* candidate that was given to the shader before it.
RollingPrevious ==
  (Painted /\ last.op = "pixel") =>
    /\ FirstPrevious
    /\ \A k \in 2..Len(last.shaders) : last.calls[k].previous = last.calls[k - 1].next

\* pixel() with two shaders, the first of which returned another pixel than
\* its candidate, which is neither the target's pixel.
RollingPreviousWitness ==
  /\ Painted
  /\ last.op = "pixel"
  /\ Len(last.shaders) = 2
  /\ last.calls[1].result # last.calls[1].next
  /\ last.calls[1].previous # last.calls[1].next
  /\ last.calls[2].previous = last.calls[1].next

\* The values of the pixels of the sheet that a blit on record reads: those
\* of its cut that are positions of the sheet.
CutValues ==
  LET cut == CASE last.op = "blitsub" ->
                    [x |-> last.cx, y |-> last.cy, w |-> last.w, h |-> last.h]
               [] last.op = "blit" ->
                    [x |-> 0, y |-> 0, w |-> Sheet.width, h |-> Sheet.height]
               [] last.op = "text" ->
                    [x |-> last.a.cx, y |-> last.a.cy,
                     w |-> last.a.width * last.a.charColumns,
                     h |-> last.a.height * last.a.charColumns]
  IN  { getPixel(Sheet, sx, sy) :
          sx \in (cut.x)..(cut.x + cut.w - 1) \cap 0..(Sheet.width - 1),
          sy \in (cut.y)..(cut.y + cut.h - 1) \cap 0..(Sheet.height - 1) }

\* C15: a drawing call with any coordinates, sizes, cuts, colour indices and
\* scales returns, leaves the length of the bytes and the bytes 0..1077 as
\* they were, and leaves every pixel byte in 0..255; pixel() whose final
\* colour is outside 0..255 or whose final position is outside the target
\* writes nothing, as does every primitive without shaders given a colour
\* outside 0..255; a blit changes a pixel only to the value of a pixel of its
\* cut that lies in the sheet; and a blit with a scale of 0 changes nothing.
PermissiveDrawing ==
  Painted =>
    /\ err = "none"
    /\ Len(data) = Len(old)
    /\ SubSeq(data, 1, HEADER_SIZE) = SubSeq(old, 1, HEADER_SIZE)
    /\ \A i \in (HEADER_SIZE + 1)..Len(data) : data[i] \in 0..(PALETTE_SIZE - 1)
    /\ last.op = "pixel" =>
         ((~withinPalette(Final.color) \/ OutOfRange(Final.x, Final.y)) =>
            (data = old /\ last.commits[1].ret = FALSE))
    /\ (last.op \in { "clear", "hline", "vline", "line", "rectb", "rectf" }
        /\ last.shaders = << >> /\ ~withinPalette(last.c)) => data = old
    /\ (last.op = "rect" /\ last.shaders = << >> /\ ~withinPalette(last.c)
        /\ ~withinPalette(last.c2)) => data = old
    /\ last.op \in { "blitsub", "blit", "text" } =>
         \E values \in { CutValues } :
           \A pos \in Inside :
             getPixel(this, pos[1], pos[2]) # getPixel(before, pos[1], pos[2]) =>
               getPixel(this, pos[1], pos[2]) \in values
    /\ (last.op \in { "blitsub", "blit" } /\ (last.scaleX = 0 \/ last.scaleY = 0)) =>
         data = old

\* A blitsub part of whose cut lies outside the sheet and part of whose
\* destination lies outside the canvas, which changed the canvas.
PermissiveDrawingWitness ==
  /\ Painted
  /\ last.op = "blitsub"
  /\ last.x < 0
  /\ last.cy + last.h > Sheet.height
  /\ data # old

\* C16: hline(x, y, size, c) with size < 0 paints the pixels x - |size| ..
\* x - 1 of row y, and vline(x, y, size, c) with size < 0 the pixels
\* y - |size| .. y - 1 of column x, and no other pixel; c is a colour of
\* the palette and there are no shaders.
NegativeLength ==
  (Painted /\ last.op \in { "hline", "vline" } /\ last.size < 0
   /\ last.shaders = << >> /\ withinPalette(last.c)) =>
    \A pos \in Inside :
      getPixel(this, pos[1], pos[2]) =
        IF \/ /\ last.op = "hline"
              /\ pos[2] = last.y
              /\ pos[1] \in (last.x - abs(last.size))..(last.x - 1)
           \/ /\ last.op = "vline"
              /\ pos[1] = last.x
              /\ pos[2] \in (last.y - abs(last.size))..(last.y - 1)
        THEN last.c
        ELSE getPixel(before, pos[1], pos[2])

\* A blitsub is on record that had no shaders and whose cut lies in the sheet.
PlainBlitSub ==
  /\ Painted
  /\ last.op = "blitsub"
  /\ last.shaders = << >>
  /\ last.cx + last.w <= Sheet.width
  /\ last.cy + last.h <= Sheet.height

\* C17: blitsub(sheet, x, y, cx, cy, w, h, scaleX, scaleY) with scales of
\* magnitude 1, one of them at least -1, leaves at every position of the box
\* of w x h pixels whose top-left corner is (x, y) the pixel of the cut with
\* the columns reversed when scaleX = -1 and the rows reversed when
\* scaleY = -1, and leaves every other pixel as it was.
MirroredBlit ==
  (PlainBlitSub /\ abs(last.scaleX) = 1 /\ abs(last.scaleY) = 1
   /\ (last.scaleX = -1 \/ last.scaleY = -1)) =>
    \A pos \in Inside :
      LET bx == pos[1] - last.x
          by == pos[2] - last.y
          dx == IF last.scaleX = -1 THEN (last.w - 1) - bx ELSE bx
          dy == IF last.scaleY = -1 THEN (last.h - 1) - by ELSE by
      IN  getPixel(this, pos[1], pos[2]) =
            IF bx \in 0..(last.w - 1) /\ by \in 0..(last.h - 1)
            THEN getPixel(Sheet, last.cx + dx, last.cy + dy)
            ELSE getPixel(before, pos[1], pos[2])

\* The canvas holds, in the area of w * pw columns and h * ph rows whose
\* top-left corner is (ox, oy), the pixels of the cut of the blitsub on
\* record, each as a block of pw x ph pixels, the columns reversed when mx
\* and the rows reversed when my; and outside it the pixels it held before.
Tiled(ox, oy, mx, my) ==
  LET pw == abs(last.scaleX)
      ph == abs(last.scaleY)
  IN  \A pos \in Inside :
        LET bx == (pos[1] - ox) \div pw
            by == (pos[2] - oy) \div ph
            dx == IF mx THEN (last.w - 1) - bx ELSE bx
            dy == IF my THEN (last.h - 1) - by ELSE by
        IN  getPixel(this, pos[1], pos[2]) =
              IF bx \in 0..(last.w - 1) /\ by \in 0..(last.h - 1)
              THEN getPixel(Sheet, last.cx + dx, last.cy + dy)
              ELSE getPixel(before, pos[1], pos[2])

\* C18: blitsub with nonzero scales writes each pixel of the cut into a block
\* of |scaleX| x |scaleY| pixels, the blocks being disjoint and tiling an
\* area of w * |scaleX| columns and h * |scaleY| rows; with positive scales
\* the area starts at (x, y) and the blocks follow the order of the cut.
ScaledBlit ==
  (PlainBlitSub /\ last.scaleX # 0 /\ last.scaleY # 0) =>
    IF last.scaleX > 0 /\ last.scaleY > 0
    THEN Tiled(last.x, last.y, FALSE, FALSE)
    ELSE \E ox \in (-(last.w * abs(last.scaleX)))..width,
            oy \in (-(last.h * abs(last.scaleY)))..height :
           Tiled(ox, oy, last.scaleX < 0, last.scaleY < 0)

\* The positions in the text on record of the characters that are glyphs:
\* not a line break, and in the charset.
Glyphs ==
  { k \in 1..Len(last.a.text) :
      /\ last.a.text[k] # "\n"
      /\ \E j \in 1..Len(last.a.charset) : last.a.charset[j] = last.a.text[k] }

\* The line and the column of position k of the text on record: the number
\* of line breaks before it, and the number of characters between the last
\* of them and it.
LineOf(k) == Cardinality({ j \in 1..(k - 1) : last.a.text[j] = "\n" })
ColumnOf(k) ==
  Cardinality({ j \in 1..(k - 1) : \A i \in j..(k - 1) : last.a.text[i] # "\n" })

\* The blitsub due for the glyph at position k of the text on record.
GlyphBlit(k) ==
  LET a == last.a
      i == CHOOSE j \in 0..(Len(a.charset) - 1) :
             /\ a.charset[j + 1] = a.text[k]
             /\ \A m \in 0..(j - 1) : a.charset[m + 1] # a.text[k]
  IN  [char |-> a.text[k],
       x |-> a.x + ColumnOf(k) * (a.width + a.letterSpacing),
       y |-> a.y + LineOf(k) * (a.height + a.lineHeight),
       cx |-> a.cx + (i % a.charColumns) * a.width,
       cy |-> a.cy + ((i \div a.charColumns) % a.charColumns) * a.height]

\* The canvas after the blits from position k on of the list, made in order
\* with the glyph size, scales and shaders of the text on record.
RECURSIVE Blitted(_, _, _)
Blitted(bmp, blits, k) ==
  IF k > Len(blits)
  THEN bmp
  ELSE Blitted(blitsub(bmp, Other(Sheet), blits[k].x, blits[k].y, blits[k].cx, blits[k].cy,
                       last.a.width, last.a.height, last.a.scaleX, last.a.scaleY,
                       last.shaders),
               blits, k + 1)

\* C19: text() makes one blitsub for each character of the text that is not
\* a line break and is in the charset, in text order, with the destination
\* (x + column * (charW + letterSpacing), y + line * (charH + lineHeight)) and
\* the cut (cx + (i mod charColumns) * charW,
\* cy + ((i div charColumns) mod charColumns) * charH), i being the index of
\* the character in the charset; line counts the line breaks before the
\* character and column the characters since the last of them; text() makes
\* no other change; and it ends with the line and column after the last
\* character.
TextLayout ==
  (Painted /\ last.op = "text") =>
    /\ Len(last.blits) = Cardinality(Glyphs)
    /\ \A k \in Glyphs :
         last.blits[Cardinality({ j \in Glyphs : j <= k })] = GlyphBlit(k)
    /\ last.line = LineOf(Len(last.a.text) + 1)
    /\ last.column = ColumnOf(Len(last.a.text) + 1)
    /\ data = Blitted(before, last.blits, 1).data

\* text() with the charset "AB" and the text "A C": one glyph, A, at column 0,
\* and the column ends at 3.
TextLayoutWitness ==
  /\ Painted
  /\ last.op = "text"
  /\ last.a.charset = << "A", "B" >>
  /\ last.a.text = << "A", " ", "C" >>
  /\ Len(last.blits) = 1
  /\ last.blits[1].char = "A"
  /\ last.blits[1].x = last.a.x
  /\ last.column = 3
  /\ data # old

(***************************************************************************)
(* Clearing                                                                *)
(***************************************************************************)
\* The bytes 0..1077 of the two arrays are the same.
SameHeader(a, b) == SubSeq(a, 1, HEADER_SIZE) = SubSeq(b, 1, HEADER_SIZE)

\* C20: clearImage(c) leaves the bytes 0..1077 as they were and every pixel
\* byte at c mod 256, and clearImage(c) once more leaves the same bytes;
\* Surface.clear(c) without shaders, on any bitmap reached and for any c,
\* leaves the bytes 0..1077 as they were, and clear(c) once more leaves the
\* same bytes.
ClearTwice ==
  /\ (pc = "ready" /\ last.op = "clearImage") =>
       /\ Len(data) = Len(old)
       /\ SameHeader(data, old)
       /\ \A i \in (HEADER_SIZE + 1)..Len(data) : data[i] = last.c % 256
       /\ clearImage(this, last.c).data = data
  /\ (pc = "ready" /\ last.op = "clear" /\ last.shaders = << >>) =>
       /\ SameHeader(data, old)
       /\ clear(this, last.c, << >>).data = data
  /\ Settled =>
       \A c \in ClearInputs \cup { PALETTE_SIZE - 1, PALETTE_SIZE } :
         \E once \in { clear(this, c, << >>) } :
           /\ SameHeader(once.data, data)
           /\ Len(once.data) = Len(data)
           /\ clear(once, c, << >>).data = once.data

\* clearImage(265) on a bitmap with pixels, which changed them to 9.
ClearTwiceWitness ==
  /\ pc = "ready"
  /\ last.op = "clearImage"
  /\ last.c = PALETTE_SIZE + 9
  /\ width * height > 0
  /\ data # old
  /\ data[HEADER_SIZE + 1] = 9

(***************************************************************************)
(* The compiled library 1.0.2b                                             *)
(***************************************************************************)
\* C21: toImageData(mask) of the library returns width * height * 4 bytes in
\* which the four bytes at 4 * (width * y + x) are r, g, b of the palette
\* entry of pixel (x, y) and 255, for every pixel that differs from the mask.
ImageDataLib ==
  Settled =>
    \A mask \in MaskInputs :
      LET ret == toImageDataLib(this, mask)
      IN  /\ Len(ret) = width * height * 4
          /\ \A x \in 0..(width - 1), y \in 0..(height - 1) :
               LET c == getColor(this, getPixel(this, x, y))
               IN  getPixel(this, x, y) # mask =>
                     SubSeq(ret, 4 * (width * y + x) + 1, 4 * (width * y + x) + 4) =
                       << c.r, c.g, c.b, 255 >>

(***************************************************************************)
(* The versions 0.0.x                                                      *)
(***************************************************************************)
\* C22: in the Bitmap of 0.0.x, getPixel at every position outside the range
\* returns -1, and setPixel at a position outside the range returns false
\* and changes no pixel.
OldBounds ==
  pc = "ready" =>
    /\ \A x \in -1..width, y \in -1..height :
         OutOfRange(x, y) => getPixelOld(this, x, y) = -1
    /\ (last.op = "setPixel" /\ OutOfRange(last.x, last.y)) =>
         (last.ret = FALSE /\ data = old)

(***************************************************************************)
(* Lines and rectangles                                                    *)
(***************************************************************************)
\* The sign of n.
sign(n) == IF n < 0 THEN -1 ELSE IF n > 0 THEN 1 ELSE 0

\* The positions of a list of plots.
Plotted(plots) == { << plots[k][1], plots[k][2] >> : k \in 1..Len(plots) }

\* C23: line(x1, y1, x2, y2, c) plots max(|x2 - x1|, |y2 - y1|) + 1 points,
\* the first (x1, y1) and the last (x2, y2); each next point is one further
\* along the longer axis (the y axis when the two are equal) and none or one
\* further along the shorter, towards the end point; and with a colour of the
\* palette and no shaders the canvas holds c at the plotted positions and is
\* unchanged elsewhere.
LineSteps ==
  (Painted /\ last.op = "line") =>
    LET plots == linePlots(last.x1, last.y1, last.x2, last.y2, last.c)
        dx == last.x2 - last.x1
        dy == last.y2 - last.y1
        n == (IF abs(dx) > abs(dy) THEN abs(dx) ELSE abs(dy)) + 1
    IN  /\ Len(plots) = n
        /\ plots[1] = << last.x1, last.y1, last.c >>
        /\ plots[n] = << last.x2, last.y2, last.c >>
        /\ \A k \in 1..(n - 1) :
             LET sx == plots[k + 1][1] - plots[k][1]
                 sy == plots[k + 1][2] - plots[k][2]
             IN  IF abs(dx) > abs(dy)
                 THEN sx = sign(dx) /\ sy \in { 0, sign(dy) }
                 ELSE sy = sign(dy) /\ sx \in { 0, sign(dx) }
        /\ (last.shaders = << >> /\ withinPalette(last.c)) =>
             \A pos \in Inside :
               getPixel(this, pos[1], pos[2]) =
                 IF pos \in Plotted(plots) THEN last.c
                 ELSE getPixel(before, pos[1], pos[2])

\* A line up and to the left whose two extents are equal and more than one,
\* drawn on the canvas.
LineStepsWitness ==
  /\ Painted
  /\ last.op = "line"
  /\ last.shaders = << >>
  /\ last.x2 - last.x1 < -1
  /\ last.x2 - last.x1 = last.y2 - last.y1
  /\ getPixel(this, last.x2, last.y2) = last.c
  /\ getPixel(this, last.x1, last.y1) = last.c

\* The outline of rectb(x, y, w, h): the rows y and y + h over the columns
\* x .. x + w - 1, and the columns x and x + w - 1 over the rows
\* y + 1 .. y + h - 1.
Outline(x, y, w, h) ==
  { << px, py >> : px \in x..(x + w - 1), py \in { y, y + h } } \cup
  { << px, py >> : px \in { x, x + w - 1 }, py \in (y + 1)..(y + h - 1) }

\* rectb on record plotted each position of its outline once and no other
\* position, and with a colour of the palette and no shaders the canvas
\* holds that colour on the outline and is unchanged elsewhere.
OutlinedOnce ==
  LET plots == rectbPlots(last.x, last.y, last.w, last.h, last.c)
      outline == Outline(last.x, last.y, last.w, last.h)
  IN  /\ Plotted(plots) = outline
      /\ Len(plots) = Cardinality(outline)
      /\ (last.shaders = << >> /\ withinPalette(last.c)) =>
           \A pos \in Inside :
             getPixel(this, pos[1], pos[2]) =
               IF pos \in outline THEN last.c ELSE getPixel(before, pos[1], pos[2])

\* C24 as stated: for all w >= 1 and h >= 1, rectb plots no position twice.
OutlineOnceFromOne ==
  (Painted /\ last.op = "rectb" /\ last.w >= 1 /\ last.h >= 1) => OutlinedOnce

\* C24, amended: for all w >= 2 and h >= 1, rectb plots each position of its
\* outline, corners included, exactly once: the four edges are pairwise
\* disjoint.
OutlineOnce ==
  (Painted /\ last.op = "rectb" /\ last.w >= 2 /\ last.h >= 1) => OutlinedOnce

\* rectb with w >= 2 and h >= 2, so that all four edges have pixels, drawn
\* wholly on the canvas.
OutlineOnceWitness ==
  /\ Painted
  /\ last.op = "rectb"
  /\ last.shaders = << >>
  /\ last.w >= 2
  /\ last.h >= 2
  /\ Outline(last.x, last.y, last.w, last.h) \subseteq Inside
  /\ \A pos \in Outline(last.x, last.y, last.w, last.h) :
       getPixel(this, pos[1], pos[2]) = last.c

\* The region rect(x, y, w, h) fills: w - 2 columns from x + 1 and h - 2
\* rows from y + 1.
Filling(x, y, w, h) ==
  { << px, py >> : px \in (x + 1)..(x + w - 2), py \in (y + 1)..(y + h - 2) }

\* C25: rect(x, y, w, h, primary, secondary) plots the outline of rectb and
\* then the region of w - 2 columns and h - 2 rows at (x + 1, y + 1); for all
\* w and h no position is in both, and without shaders the canvas holds
\* primary at every position of the outline (when primary is a colour of the
\* palette), secondary at every position of the region (when secondary is
\* one), and is unchanged elsewhere.
RectBorder ==
  (Painted /\ last.op = "rect") =>
    LET outline == Outline(last.x, last.y, last.w, last.h)
        filling == Filling(last.x, last.y, last.w, last.h)
        plots == rectPlots(last.x, last.y, last.w, last.h, last.c, last.c2)
    IN  /\ outline \cap filling = { }
        /\ { << plots[k][1], plots[k][2] >> : k \in { j \in 1..Len(plots) : plots[j][3] = last.c } }
             \subseteq (IF last.c = last.c2 THEN outline \cup filling ELSE outline)
        /\ Plotted(plots) = outline \cup filling
        /\ last.shaders = << >> =>
             \A pos \in Inside :
               getPixel(this, pos[1], pos[2]) =
                 IF pos \in outline /\ withinPalette(last.c) THEN last.c
                 ELSE IF pos \in filling /\ withinPalette(last.c2) THEN last.c2
                 ELSE getPixel(before, pos[1], pos[2])

\* rect with a border and a filling of different colours, both drawn.
RectBorderWitness ==
  /\ Painted
  /\ last.op = "rect"
  /\ last.shaders = << >>
  /\ last.c # last.c2
  /\ withinPalette(last.c2)
  /\ Filling(last.x, last.y, last.w, last.h) # { }
  /\ \A pos \in Outline(last.x, last.y, last.w, last.h) \cap Inside :
       getPixel(this, pos[1], pos[2]) = last.c
  /\ \E pos \in Filling(last.x, last.y, last.w, last.h) :
       getPixel(this, pos[1], pos[2]) = last.c2

\* C26: in the library 1.0.2b, rectb and rectf called with colour index 9 and
\* the shaders << MaskShader(9) >>, and rect called with both colours 9 and
\* these shaders, leave the canvas as it was.
LibMasking ==
  (Painted /\ last.shaders = Mask /\ last.c = 9 /\ (last.op = "rect" => last.c2 = 9)) =>
    data = old

(***************************************************************************)
(* Blits from the surface's own drawable                                   *)
(***************************************************************************)
\* C27: after blitsub or blit whose drawable is the surface's own, the
\* canvas is the one the same call leaves when it reads a copy of the
\* drawable taken before the call.
SelfBlit ==
  Painted =>
    data = (IF last.op = "blitsub"
            THEN blitsub(before, Other(before), last.x, last.y, last.cx, last.cy,
                         last.w, last.h, last.scaleX, last.scaleY, last.shaders)
            ELSE blit(before, Other(before), last.x, last.y, last.scaleX, last.scaleY,
                      last.shaders)).data

(***************************************************************************)
(* The interior of rect                                                    *)
(***************************************************************************)
\* The positions the outline of rectb(x, y, w, h) encloses: strictly between
\* its left and right columns and strictly between its top and bottom rows.
Enclosed(x, y, w, h) ==
  { << px, py >> : px \in (x + 1)..(x + w - 2), py \in (y + 1)..(y + h - 1) }

\* C28: rect(x, y, w, h, primary, secondary) with w >= 3, h >= 3, two
\* different colours of the palette, no shaders and the whole outline on the
\* canvas leaves secondary at every position the outline encloses.
RectInterior ==
  (/\ Painted
   /\ last.op = "rect"
   /\ last.shaders = << >>
   /\ last.w >= 3
   /\ last.h >= 3
   /\ last.c # last.c2
   /\ withinPalette(last.c)
   /\ withinPalette(last.c2)
   /\ Outline(last.x, last.y, last.w, last.h) \subseteq Inside) =>
    \A pos \in Enclosed(last.x, last.y, last.w, last.h) :
      getPixel(this, pos[1], pos[2]) = last.c2

(***************************************************************************)
(* line and its end points exchanged                                       *)
(***************************************************************************)
\* line on record and the line with its end points exchanged plot the same
\* set of positions.
SamePlotted ==
  Plotted(linePlots(last.x1, last.y1, last.x2, last.y2, last.c)) =
    Plotted(linePlots(last.x2, last.y2, last.x1, last.y1, last.c))

\* Some point of the straight line between the end points on record, at a
\* whole step k along the longer extent, lies exactly halfway between two
\* positions of the shorter: 2 * k * shortest is an odd multiple of longest.
Halfway ==
  LET w == abs(last.x2 - last.x1)
      h == abs(last.y2 - last.y1)
      longest == IF w > h THEN w ELSE h
      shortest == IF w > h THEN h ELSE w
  IN  \E k \in 1..(longest - 1) : (2 * k * shortest) % (2 * longest) = longest

\* C29 as stated: for all end points, line(x1, y1, x2, y2, c) and
\* line(x2, y2, x1, y1, c) plot the same set of positions.
LineSymmetricAlways ==
  (Painted /\ last.op = "line") => SamePlotted

\* C29, amended: line(x1, y1, x2, y2, c) and line(x2, y2, x1, y1, c) plot the
\* same set of positions exactly when no point of the straight line between
\* the end points lies halfway between two positions; both plot the same
\* number of positions.
LineSymmetric ==
  (Painted /\ last.op = "line") =>
    /\ SamePlotted <=> ~Halfway
    /\ Len(linePlots(last.x1, last.y1, last.x2, last.y2, last.c)) =
         Len(linePlots(last.x2, last.y2, last.x1, last.y1, last.c))

\* A line three columns across and one row down, which has no halfway point
\* and steps along both axes, drawn on the canvas.
LineSymmetricWitness ==
  /\ Painted
  /\ last.op = "line"
  /\ last.shaders = << >>
  /\ last.x2 - last.x1 = 3
  /\ last.y2 - last.y1 = 1
  /\ ~Halfway
  /\ getPixel(this, last.x2, last.y2) = last.c

(***************************************************************************)
(* Grids of cells packed into bytes                                        *)
(***************************************************************************)
\* The number of values a cell of the format holds.
CellRange(format) == IF format = Bits THEN 2 ELSE IF format = HalfNibbles THEN 4 ELSE 16

\* setPixel(x, y, v) on record, in range, returned true; getPixel(x, y) now
\* returns v modulo the cell range, and getPixel at every other position
\* returns what it did before the call.
CellRoundTrip ==
  /\ last.ret
  /\ gridGetPixel(grid, last.x, last.y) = last.v % CellRange(last.format)
  /\ \A px \in 0..(width - 1), py \in 0..(height - 1) :
       << px, py >> # << last.x, last.y >> =>
         gridGetPixel(grid, px, py) = gridGetPixel(gridBefore, px, py)

\* C30: on a PixelGrid of any format whose width is a multiple of the cells
\* to the byte, setPixel(x, y, v) in range with v >= 0 returns true, getPixel
\* (x, y) then returns v modulo the cell range and getPixel elsewhere is
\* unchanged; and every byte split and joined again, as bits, half nibbles
\* or nibbles, is the byte.
PackedRoundTrip ==
  /\ (pc = "ready" /\ last.op = "gridSetPixel" /\ within(grid, last.x, last.y)) =>
       CellRoundTrip
  /\ (pc = "ready" /\ last.op = "join") =>
       (last.bits = last.value /\ last.halfNibbles = last.value /\ last.nibbles = last.value)
====
